---- MODULE Spec2Model ----
(***************************************************************************)
(* Model of the six-stage research pipeline: the SQLite ledger             *)
(* (storage/database.py), the six agents (agents/*.py), the workflow       *)
(* runner (workflows/research_workflow.py), the cost tracker               *)
(* (services/cost_tracker.py) and the end-to-end script (tests/).          *)
(*                                                                         *)
(* Every agent's execute() is synchronous from entry to return (call_llm   *)
(* is a plain call), so one execution is one step, except Stage 5, whose   *)
(* two ledger commits (INSERT queued, UPDATE completed/failed) are two     *)
(* steps because the row is visible to other connections in between.       *)
(***************************************************************************)
EXTENDS Integers, Sequences, FiniteSets, TLC

VARIABLES
    db,       \* the ledger: one field per table, plus the wall clock and the uuid source
    costs,    \* cost_tracker.costs of the current month (list of entries)
    wf,       \* the ResearchWorkflow instance and its run_sequential loop
    pending,  \* the Stage-5 execution that has inserted its run and not yet updated it
    ops,      \* number of operations issued outside the workflow runner
    out,      \* what the last operation returned (AgentOutput, or the raised exception)
    store     \* data/costs.json and the CostTracker instances of the processes sharing it

vars == <<db, costs, wf, pending, ops, out, store>>

(***************************************************************************)
(* Bounds                                                                  *)
(***************************************************************************)
MaxOps == 1        \* operations issued outside the runner in one behaviour
MaxSpends == 3     \* track_api_call calls in one behaviour of the cost store
MaxAdds == 3       \* Database calls in one behaviour of the bare ledger

Projects == {"P1", "P2"}
ScriptProject == "e2e_test"   \* the project of the end-to-end script
None == 0          \* Python None / falsy id
NoTitle == ""      \* context has no idea_title

(***************************************************************************)
(* Small helpers                                                           *)
(***************************************************************************)
RECURSIVE SortDesc(_)
\* ORDER BY <key> DESC over a set of <<key, row>> pairs
SortDesc(K) ==
    IF K = {} THEN <<>>
    ELSE LET m == CHOOSE x \in K : \A y \in K : y[1] <= x[1]
         IN <<m[2]>> \o SortDesc(K \ {m})

\* a search that settles for the first row when none matches
FindId_or_first(rows, id) ==
    IF \E i \in 1..Len(rows) : rows[i].id = id THEN id
    ELSE IF Len(rows) > 0 THEN rows[1].id ELSE 0

\* next((x for x in rows if x["id"] == id), None): the id of the match, or None
FindId(rows, id) ==
    IF \E i \in 1..Len(rows) : rows[i].id = id THEN id ELSE None

\* rows[0] if rows else None
FirstId(rows) == IF Len(rows) > 0 THEN rows[1].id ELSE None

RowOf(table, id) == CHOOSE r \in table : r.id = id

\* a plain insert into a table without a primary key
Upsert_appends(table, row) == table \cup {row}

\* INSERT OR REPLACE keyed by the primary key id
Upsert(table, row) == {r \in table : r.id # row.id} \cup {row}

\* a metrics block is the list of its values, in hundredths
NullResults == [present |-> FALSE, samples_processed |-> 0, metrics |-> <<>>]

(***************************************************************************)
(* Ledger (storage/database.py).  d is the ledger value threaded through a *)
(* handler; d.now is datetime.now() and d.uuid the last generated id.      *)
(***************************************************************************)
Tick(d) == [d EXCEPT !.now = @ + 1]

\* INSERT INTO projects (plain INSERT: the caller sees sqlite3.IntegrityError
\* when the id is taken, see DbCreateProject)
create_project(d, project_id) ==
    Tick([d EXCEPT !.projects = @ \cup {[id |-> project_id, status |-> "active",
                                          created_at |-> d.now]}])

add_paper(d, arxiv_id, project_id, relevance_score) ==
    Tick([d EXCEPT !.papers = Upsert(@, [id |-> arxiv_id, project_id |-> project_id,
                                        relevance_score |-> relevance_score,
                                        added_at |-> d.now])])

get_papers(d, project_id) ==
    SortDesc({<<p.relevance_score, p>> : p \in {x \in d.papers : x.project_id = project_id}})

log_agent_run(d, project_id, agent_name, tokens_used, cost_usd, results, status, error) ==
    Tick([d EXCEPT !.agent_runs = Append(@, [id |-> Len(@) + 1, project_id |-> project_id,
                                            agent_name |-> agent_name, status |-> status,
                                            tokens_used |-> tokens_used, cost_usd |-> cost_usd,
                                            results |-> results, error |-> error,
                                            completed_at |-> d.now])])

\* the success criteria of a hypothesis, in hundredths: the values _define_success_criteria
\* fills in (and its fallback holds), which are also the defaults Stage 6 reads
\* from a hypothesis without criteria
DefaultCriteria == [significance_level |-> 5, minimum_effect_size |-> 30]

\* an insert that stores no creation time
add_hypothesis_undated(d, hypothesis_id, project_id, idea_title, success_criteria) ==
    Tick([d EXCEPT !.hypotheses =
            Upsert(@, [id |-> hypothesis_id, project_id |-> project_id,
                       idea_title |-> idea_title, success_criteria |-> success_criteria,
                       status |-> "pending", created_at |-> 0])])

\* success_criteria is the stored dict as Stage 6 reads it: a key it lacks
\* reads as its default
add_hypothesis(d, hypothesis_id, project_id, idea_title, success_criteria) ==
    Tick([d EXCEPT !.hypotheses = Upsert(@, [id |-> hypothesis_id, project_id |-> project_id,
                                            idea_title |-> idea_title,
                                            success_criteria |-> success_criteria,
                                            status |-> "pending", created_at |-> d.now])])

\* a lookup that forgets WHERE project_id = ?
get_hypotheses_any_project(d, project_id) ==
    SortDesc({<<h.created_at, h>> : h \in d.hypotheses})

get_hypotheses(d, project_id) ==
    SortDesc({<<h.created_at, h>> : h \in {x \in d.hypotheses : x.project_id = project_id}})

add_experiment_design(d, design_id, hypothesis_id, project_id, data_requirements) ==
    Tick([d EXCEPT !.experiment_designs =
            Upsert(@, [id |-> design_id, hypothesis_id |-> hypothesis_id,
                       project_id |-> project_id, data_requirements |-> data_requirements,
                       status |-> "draft", created_at |-> d.now])])

\* a lookup that forgets WHERE project_id = ?
get_experiment_designs_any_project(d, project_id) ==
    SortDesc({<<x.created_at, x>> : x \in d.experiment_designs})

\* called by the agents with project_id only
get_experiment_designs(d, project_id) ==
    SortDesc({<<x.created_at, x>> : x \in {y \in d.experiment_designs : y.project_id = project_id}})

\* an insert that starts the run in status running
add_experiment_run_running(d, run_id, design_id, project_id) ==
    Tick([d EXCEPT !.experiment_runs =
            Upsert(@, [id |-> run_id, design_id |-> design_id, project_id |-> project_id,
                       status |-> "running", results_data |-> NullResults,
                       error |-> "", duration_seconds |-> "", started_at |-> d.now])])

add_experiment_run(d, run_id, design_id, project_id) ==
    Tick([d EXCEPT !.experiment_runs =
            Upsert(@, [id |-> run_id, design_id |-> design_id, project_id |-> project_id,
                       status |-> "queued", results_data |-> NullResults,
                       error |-> "", duration_seconds |-> "", started_at |-> d.now])])

\* an update that writes the status and the results only
update_experiment_run_status_only(d, run_id, status, results_data, error, duration_seconds) ==
    [d EXCEPT !.experiment_runs =
        {IF r.id = run_id
         THEN [r EXCEPT !.status = IF status # "" THEN status ELSE @,
                        !.results_data = IF results_data # NullResults THEN results_data ELSE @]
         ELSE r : r \in @}]

\* status = "", error = "" and duration_seconds = "" stand for the arguments
\* left at None; results_data = NullResults for results_data=None; the
\* duration stored is "elapsed", the time since the run started.
\* UPDATE ... WHERE id = ?
update_experiment_run(d, run_id, status, results_data, error, duration_seconds) ==
    [d EXCEPT !.experiment_runs =
        {IF r.id = run_id
         THEN [r EXCEPT !.status = IF status # "" THEN status ELSE @,
                        !.results_data = IF results_data # NullResults THEN results_data ELSE @,
                        !.error = IF error # "" THEN error ELSE @,
                        !.duration_seconds =
                            IF duration_seconds # "" THEN duration_seconds ELSE @]
         ELSE r : r \in @}]

\* called by the agents with project_id only
get_experiment_runs(d, project_id) ==
    SortDesc({<<r.started_at, r>> : r \in {x \in d.experiment_runs : x.project_id = project_id}})

add_analysis(d, analysis_id, run_id, project_id, hypothesis_id, decision) ==
    Tick([d EXCEPT !.analyses = Upsert(@, [id |-> analysis_id, run_id |-> run_id,
                                          project_id |-> project_id,
                                          hypothesis_id |-> hypothesis_id,
                                          decision |-> decision, status |-> "completed",
                                          created_at |-> d.now])])

\* get_analyses(project_id=...): WHERE project_id = ? ORDER BY created_at DESC
get_analyses(d, project_id) ==
    SortDesc({<<a.created_at, a>> : a \in {x \in d.analyses : x.project_id = project_id}})

\* uuid.uuid4().hex[:12]: an id no row carries yet
NewUuid(d) == d.uuid + 1
TakeUuid(d) == [d EXCEPT !.uuid = @ + 1]

(***************************************************************************)
(* Stage contract (AgentOutput) and the external collaborators             *)
(***************************************************************************)
\* what one completion call reports: (text, tokens_used, cost_usd)
LLMReply == [tokens |-> 10, cost |-> 2]

OutBase ==
    [kind |-> "init", stage |-> 0, via |-> "none", project_id |-> "",
     success |-> FALSE, raised |-> FALSE, error |-> "",
     tokens_used |-> 0, cost_usd |-> 0, calls |-> 0,
     ideas |-> <<>>, papers |-> <<>>, record_id |-> None, pred_id |-> None,
     arg_id |-> None, arg_title |-> NoTitle, selected_title |-> NoTitle,
     max_papers |-> 0, candidates |-> <<>>, batch |-> <<>>,
     resources |-> [estimated_compute_time |-> "", cost_cents |-> 0],
     stats |-> [p_value |-> 0, significance_level |-> 0, effect_size |-> 0,
                statistically_significant |-> FALSE],
     decision |-> "",
     malformed |-> FALSE, saves |-> 0, sink_fails |-> {}, artifacts |-> <<>>]

\* the references of the saves 1..n to the document sink that did not raise, in
\* the order of the saves: artifacts.append(str(path)) inside try/except
SavedRefs(n, fails) ==
    LET kept == {i \in 1..n : i \notin fails}
    IN [k \in 1..Cardinality(kept) |->
          CHOOSE i \in kept : Cardinality({j \in kept : j < i}) = k - 1]

\* AgentOutput(success=False, results={"error": err}, tokens_used, cost_usd) after n completions
Failure(stage, project_id, err, n) ==
    [OutBase EXCEPT !.kind = "exec", !.stage = stage, !.project_id = project_id,
                    !.error = err, !.calls = n,
                    !.tokens_used = n * LLMReply.tokens, !.cost_usd = n * LLMReply.cost]

\* AgentOutput(success=True, ...) after n completions
Success(stage, project_id, n) ==
    [OutBase EXCEPT !.kind = "exec", !.stage = stage, !.project_id = project_id,
                    !.success = TRUE, !.calls = n,
                    !.tokens_used = n * LLMReply.tokens, !.cost_usd = n * LLMReply.cost,
                    !.saves = 1, !.artifacts = SavedRefs(1, {})]

\* a sink failure that fails the stage
save_to_obsidian_or_fail(o, fails) ==
    IF fails \cap (1..o.saves) = {} THEN o
    ELSE [o EXCEPT !.success = FALSE, !.error = "sink error",
                   !.sink_fails = fails \cap (1..o.saves), !.artifacts = <<>>]

\* the saves of an execution of which those in fails raise: each is wrapped in
\* try/except Exception, which leaves the reference out of artifacts
save_to_obsidian(o, fails) ==
    [o EXCEPT !.sink_fails = fails \cap (1..o.saves),
              !.artifacts = SavedRefs(o.saves, fails)]

\* execute() left by an exception after n completions: there is no AgentOutput
Raised(stage, project_id, err, n) ==
    [OutBase EXCEPT !.kind = "exec", !.stage = stage, !.project_id = project_id,
                    !.raised = TRUE, !.error = err, !.calls = n]

\* AgentInput.project_id is None or empty
NoProject == ""

\* if not project_id: return AgentOutput(success=False, "project_id required")
MissingProject(stage, d, project_id) ==
    [db |-> d, out |-> Failure(stage, project_id, "project_id required", 0),
     pending |-> [run_id |-> None, design_id |-> None, project_id |-> "", via |-> "none",
                  data_requirements |-> [kind |-> "dict", min_samples |-> 0]]]

NoPending ==
    [run_id |-> None, design_id |-> None, project_id |-> "", via |-> "none",
     data_requirements |-> [kind |-> "dict", min_samples |-> 0]]

\* an execution that has returned or raised
Done(d, o) == [db |-> d, out |-> o, pending |-> NoPending]

RECURSIVE StableSortDesc(_)
\* list.sort(key=..., reverse=True) over a list of <<key, item>> pairs: stable
StableSortDesc(pairs) ==
    IF pairs = <<>> THEN <<>>
    ELSE LET n == Len(pairs)
             init == StableSortDesc(SubSeq(pairs, 1, n - 1))
             x == pairs[n]
             k == Cardinality({i \in 1..Len(init) : init[i][1] >= x[1]})
         IN SubSeq(init, 1, k) \o <<x>> \o SubSeq(init, k + 1, Len(init))

Items(pairs) == [i \in 1..Len(pairs) |-> pairs[i][2]]

\* a slice that keeps the whole list
Take_all(seq, n) == seq

\* seq[:n]
Take(seq, n) == SubSeq(seq, 1, IF Len(seq) < n THEN Len(seq) ELSE n)

(***************************************************************************)
(* Stage 1: LiteratureReviewAgent                                          *)
(***************************************************************************)
MaxPapersDefault == 5

\* float("nan"): a number that every comparison answers False for
NaN == 99
Lt(a, b) == a # NaN /\ b # NaN /\ a < b
\* min(a, b) and max(a, b) of Python: the first argument unless the second beats it
PyMin(a, b) == IF Lt(b, a) THEN b ELSE a
PyMax(a, b) == IF Lt(a, b) THEN b ELSE a

\* a score that is stored as it was parsed
Clamp_none(x) == x

\* max(1.0, min(10.0, x))
Clamp(x) == PyMax(1, PyMin(10, x))

\* a field of a reply is [numeric, val]: float(field) returns val, or raises
\* ValueError when the field is no number
ParseScore(field) == [parsable |-> field.numeric, value |-> field.val]

\* map(float, response.split(",")) unpacked into three names: ValueError when a
\* field is no number or the fields are not three
ParseScores(fields) ==
    IF Len(fields) = 3 /\ \A i \in 1..3 : fields[i].numeric
    THEN [parsable |-> TRUE, novelty |-> fields[1].val, feasibility |-> fields[2].val,
          impact |-> fields[3].val]
    ELSE [parsable |-> FALSE, novelty |-> 0, feasibility |-> 0, impact |-> 0]

\* a relevance reply is [parsable, value]; clamp to [1,10], 5.0 when float() fails
ClampScore(reply) ==
    IF ~reply.parsable THEN 5 ELSE Clamp(reply.value)

\* _score_relevance: <<score, completions made>>
_score_relevance(paper, reply) ==
    IF ~paper.abstract THEN <<3, 0>> ELSE <<ClampScore(reply), 1>>

RECURSIVE AddPapers(_, _, _)
\* for paper in top_papers: db.add_paper(...)
AddPapers(d, project_id, top_papers) ==
    IF top_papers = <<>> THEN d
    ELSE AddPapers(add_paper(d, Head(top_papers).paperId, project_id,
                             Head(top_papers).relevance_score),
                   project_id, Tail(top_papers))

\* max_papers: context.get("max_papers", 5); papers: the search result;
\* replies[i]: the completion's text for the scoring prompt of candidate i;
\* fault: index of the completion call that raises (0: none)
LiteratureReviewAgent_execute(d, project_id, max_papers, papers, replies, fault) ==
    LET cands == Take(papers, max_papers * 2)
        withAbs == [i \in 1..Len(cands) |->
                      Cardinality({j \in 1..i : cands[j].abstract})]
        nScore == IF Len(cands) = 0 THEN 0 ELSE withAbs[Len(cands)]
        scored == [i \in 1..Len(cands) |->
                     <<_score_relevance(cands[i], replies[i])[1],
                       [paperId |-> cands[i].paperId,
                        relevance_score |-> _score_relevance(cands[i], replies[i])[1]]>>]
        top_papers == Take(Items(StableSortDesc(scored)), max_papers)
        d1 == AddPapers(d, project_id, top_papers)
    IN IF papers = <<>> THEN Done(d, Failure(1, project_id, "No papers found", 0))
       ELSE IF fault \in 1..nScore
            THEN Done(d, Raised(1, project_id, "completion error", fault - 1))
       ELSE IF fault = nScore + 1
            THEN Done(d1, Raised(1, project_id, "completion error", nScore))
       ELSE Done(d1, [Success(1, project_id, nScore + 1) EXCEPT
                         !.papers = top_papers,
                         !.max_papers = max_papers,
                         !.candidates = Items(scored),
                         !.saves = Len(top_papers),
                         !.artifacts = SavedRefs(Len(top_papers), {})])

(***************************************************************************)
(* Stage 2: IdeaGenerationAgent                                            *)
(***************************************************************************)
NOVELTY_WEIGHT == 35
FEASIBILITY_WEIGHT == 35
IMPACT_WEIGHT == 30

\* a scoring that takes the plain mean of the three scores
_score_idea_mean(reply) ==
    IF reply.parsable
    THEN LET novelty == Clamp(reply.novelty)
             feasibility == Clamp(reply.feasibility)
             impact == Clamp(reply.impact)
         IN [novelty |-> novelty, feasibility |-> feasibility, impact |-> impact,
             overall |-> ((novelty + feasibility + impact) * 100) \div 3]
    ELSE [novelty |-> 5, feasibility |-> 5, impact |-> 5, overall |-> 500]

\* _score_idea: a score reply is [parsable, novelty, feasibility, impact];
\* overall_score is kept in hundredths
_score_idea(reply) ==
    IF reply.parsable
    THEN LET novelty == Clamp(reply.novelty)
             feasibility == Clamp(reply.feasibility)
             impact == Clamp(reply.impact)
         IN [novelty |-> novelty, feasibility |-> feasibility, impact |-> impact,
             overall |-> novelty * NOVELTY_WEIGHT + feasibility * FEASIBILITY_WEIGHT
                         + impact * IMPACT_WEIGHT]
    ELSE [novelty |-> 5, feasibility |-> 5, impact |-> 5, overall |-> 500]

\* a guard that never refuses
no_papers_never(papers) == FALSE

\* line 88: if not papers
no_papers(papers) == papers = <<>>

\* an item of the JSON list that is not an object: `key in idea` or idea.get
\* raises TypeError / AttributeError, which _parse_ideas does not catch
NotAnObject == [object |-> FALSE, title |-> "", keys |-> {}]

\* required_keys of _parse_ideas
RequiredKeys ==
    {"title", "description", "approach", "why_novel", "potential_impact",
     "resources_needed", "risks"}

\* a parser that keeps every item of the list
_parse_ideas_keeps_all(batch) ==
    IF batch.kind # "list" THEN <<>> ELSE batch.items

\* _parse_ideas: batch is the reply, [kind, items]; kind "list" is a JSON list
\* of items [object, title, keys], "unparsable" is not JSON, "nonlist" is JSON
\* of another type.  An item is kept when every required key is in it.
_parse_ideas(batch) ==
    IF batch.kind # "list" THEN <<>>
    ELSE SelectSeq(batch.items, LAMBDA idea : \A key \in RequiredKeys : key \in idea.keys)

\* batch: the reply to the idea prompt; replies[i]: the scoring reply for the
\* i-th idea that _parse_ideas kept
IdeaGenerationAgent_execute(d, project_id, batch, replies, fault) ==
    LET papers == get_papers(d, project_id)
        ideas == _parse_ideas(batch)
        bad_item == \E i \in 1..Len(batch.items) : ~batch.items[i].object
        bad_score == \E i \in 1..Len(ideas) : ~replies[i].parsable
        scored == [i \in 1..Len(ideas) |->
                     LET s == _score_idea(replies[i])
                     IN <<s.overall,
                          [title |-> ideas[i].title, novelty_score |-> s.novelty,
                           feasibility_score |-> s.feasibility,
                           impact_score |-> s.impact, overall_score |-> s.overall]>>]
        scored_ideas == Items(StableSortDesc(scored))
    IN IF project_id = NoProject THEN MissingProject(2, d, project_id)
       ELSE IF no_papers(papers)
       THEN Done(d, Failure(2, project_id, "No papers found for this project", 0))
       ELSE IF fault \in 1..2
            THEN Done(d, Raised(2, project_id, "completion error", fault - 1))
       ELSE IF bad_item
            THEN Done(d, [Raised(2, project_id, "TypeError: not an object", 2)
                             EXCEPT !.malformed = TRUE])
       ELSE IF ideas = <<>>
            THEN Done(d, [Failure(2, project_id, "Failed to generate valid ideas", 2)
                             EXCEPT !.malformed = TRUE, !.batch = batch.items])
       ELSE IF fault \in 3..(2 + Len(ideas))
            THEN Done(d, Raised(2, project_id, "completion error", fault - 1))
       ELSE Done(d, [Success(2, project_id, 2 + Len(ideas)) EXCEPT
                        !.ideas = scored_ideas, !.malformed = bad_score,
                        !.batch = batch.items])

(***************************************************************************)
(* Stage 3: HypothesisFormationAgent                                       *)
(***************************************************************************)
\* a query that takes the newest record of the stage whatever its status
LatestIdeaRuns_any_status(d, project_id) ==
    SortDesc({<<r.completed_at, r>> :
              r \in {d.agent_runs[i] : i \in {j \in 1..Len(d.agent_runs) :
                        /\ d.agent_runs[j].project_id = project_id
                        /\ d.agent_runs[j].agent_name = "IdeaGenerationAgent"}}})

\* SELECT results FROM agent_runs WHERE project_id = ? AND agent_name =
\* 'IdeaGenerationAgent' AND status = 'completed' ORDER BY completed_at DESC LIMIT 1
LatestIdeaRuns(d, project_id) ==
    SortDesc({<<r.completed_at, r>> :
              r \in {d.agent_runs[i] : i \in {j \in 1..Len(d.agent_runs) :
                        /\ d.agent_runs[j].project_id = project_id
                        /\ d.agent_runs[j].agent_name = "IdeaGenerationAgent"
                        /\ d.agent_runs[j].status = "completed"}}})

\* a selection that takes the top idea whatever the title asked for
IdeaIndex_top(ideas, idea_title) == 1

\* next((i for i in ideas if i["title"] == idea_title), None): its index, or 0
IdeaIndex(ideas, idea_title) ==
    IF \E i \in 1..Len(ideas) : ideas[i].title = idea_title
    THEN CHOOSE i \in 1..Len(ideas) :
            /\ ideas[i].title = idea_title
            /\ \A j \in 1..(i - 1) : ideas[j].title # idea_title
    ELSE 0

\* reply: the shape of the three completions of _generate_hypothesis,
\* _identify_variables and _define_success_criteria: "dict" (a JSON object),
\* "unparsable" (not JSON: each helper substitutes its fallback) or "nondict"
\* (JSON of another type: `key in data` / data[key] = ... raises TypeError,
\* which the helpers do not catch)
HypothesisFormationAgent_execute(d, project_id, idea_title, reply, fault) ==
    LET agent_runs == LatestIdeaRuns(d, project_id)
        ideas == agent_runs[1].results.ideas
        sel == IF idea_title # NoTitle THEN IdeaIndex(ideas, idea_title) ELSE 1
        hypothesis_id == NewUuid(d)
        d1 == add_hypothesis(TakeUuid(d), hypothesis_id, project_id, ideas[sel].title,
                             DefaultCriteria)
    IN IF project_id = NoProject THEN MissingProject(3, d, project_id)
       ELSE IF agent_runs = <<>>
       THEN Done(d, [Failure(3, project_id, "No ideas found. Run Agent 2 first.", 0)
                        EXCEPT !.arg_title = idea_title])
       ELSE IF ideas = <<>>
            THEN Done(d, [Failure(3, project_id, "No ideas in Agent 2 output", 0)
                             EXCEPT !.arg_title = idea_title])
       ELSE IF sel = 0
            THEN Done(d, [Failure(3, project_id, "Idea not found", 0)
                             EXCEPT !.arg_title = idea_title])
       ELSE IF fault \in 1..3
            THEN Done(d, [Raised(3, project_id, "completion error", fault - 1)
                             EXCEPT !.arg_title = idea_title,
                                    !.pred_id = agent_runs[1].id,
                                    !.selected_title = ideas[sel].title])
       ELSE IF reply = "nondict"
            THEN Done(d, [Raised(3, project_id, "TypeError: not an object", 1)
                             EXCEPT !.arg_title = idea_title,
                                    !.pred_id = agent_runs[1].id,
                                    !.selected_title = ideas[sel].title,
                                    !.malformed = TRUE])
       ELSE Done(d1, [Success(3, project_id, 3) EXCEPT
                         !.record_id = hypothesis_id, !.arg_title = idea_title,
                         !.pred_id = agent_runs[1].id,
                         !.selected_title = ideas[sel].title,
                         !.malformed = (reply = "unparsable")])

(***************************************************************************)
(* Stage 4: ExperimentDesignAgent                                          *)
(***************************************************************************)
Absent == -1       \* the key min_samples is not in the dict
NonNumeric == -2   \* min_samples is a string: `sample_size < 1000` raises TypeError

\* _define_data_requirements: a reply is [kind, min_samples]; kind "dict" is a
\* JSON object, "unparsable" is not JSON (the fallback dict is substituted),
\* "nondict" is JSON of another type, returned as it is.
\* A fallback that is an empty dict:
_define_data_requirements_empty(reply) ==
    IF reply.kind = "unparsable" THEN [kind |-> "dict", min_samples |-> Absent]
    ELSE reply

\* lines 229-247: json.loads of the reply, the fallback dict when it is not JSON
_define_data_requirements(reply) ==
    IF reply.kind = "unparsable" THEN [kind |-> "dict", min_samples |-> 1000]
    ELSE reply

\* an estimate whose first bucket takes 1000 samples in
_estimate_resources_inclusive(data_req) ==
    LET sample_size == IF data_req.min_samples = Absent THEN 1000 ELSE data_req.min_samples
    IN IF sample_size <= 1000 THEN [estimated_compute_time |-> "< 5 minutes", cost_cents |-> 0]
       ELSE IF sample_size < 10000
            THEN [estimated_compute_time |-> "5-30 minutes", cost_cents |-> 0]
       ELSE [estimated_compute_time |-> "30-120 minutes", cost_cents |-> 10]

\* _estimate_resources: data_req.get("min_samples", 1000) and the three buckets;
\* estimated_cost_usd is kept in cents
_estimate_resources(data_req) ==
    LET sample_size == IF data_req.min_samples = Absent THEN 1000 ELSE data_req.min_samples
    IN IF sample_size < 1000 THEN [estimated_compute_time |-> "< 5 minutes", cost_cents |-> 0]
       ELSE IF sample_size < 10000
            THEN [estimated_compute_time |-> "5-30 minutes", cost_cents |-> 0]
       ELSE [estimated_compute_time |-> "30-120 minutes", cost_cents |-> 10]

\* a guard that never refuses
no_hypothesis_never(hypothesis) == FALSE

\* line 69: if not hypothesis
no_hypothesis(hypothesis) == hypothesis = None

ExperimentDesignAgent_execute(d, project_id, hypothesis_id, reply, fault) ==
    LET hypotheses == get_hypotheses(d, project_id)
        hypothesis == IF hypothesis_id # None THEN FindId(hypotheses, hypothesis_id)
                      ELSE FirstId(hypotheses)
        data_req == _define_data_requirements(reply)
        resources == _estimate_resources(data_req)
        design_id == NewUuid(d)
        d1 == add_experiment_design(TakeUuid(d), design_id, hypothesis, project_id, data_req)
    IN IF project_id = NoProject THEN MissingProject(4, d, project_id)
       ELSE IF no_hypothesis(hypothesis)
       THEN Done(d, [Failure(4, project_id, "No hypothesis found. Run Agent 3 first.", 0)
                        EXCEPT !.arg_id = hypothesis_id])
       ELSE IF fault \in 1..2
            THEN Done(d, [Raised(4, project_id, "completion error", fault - 1)
                             EXCEPT !.arg_id = hypothesis_id, !.pred_id = hypothesis])
       ELSE IF data_req.kind # "dict"
            THEN Done(d, [Raised(4, project_id, "AttributeError: no attribute 'get'", 2)
                             EXCEPT !.arg_id = hypothesis_id, !.pred_id = hypothesis,
                                    !.malformed = TRUE])
       ELSE IF data_req.min_samples = NonNumeric
            THEN Done(d, [Raised(4, project_id, "TypeError: '<' not supported", 2)
                             EXCEPT !.arg_id = hypothesis_id, !.pred_id = hypothesis,
                                    !.malformed = TRUE])
       ELSE Done(d1, [Success(4, project_id, 2) EXCEPT
                         !.record_id = design_id, !.pred_id = hypothesis,
                         !.arg_id = hypothesis_id, !.resources = resources,
                         !.malformed = (reply.kind = "unparsable")])

(***************************************************************************)
(* Stage 5: ExperimentExecutionAgent                                       *)
(***************************************************************************)
\* lines 36-81: resolve the design and INSERT the run (status queued)
ExperimentExecutionAgent_begin(d, project_id, design_id, via) ==
    LET designs == get_experiment_designs(d, project_id)
        design == IF design_id # None THEN FindId(designs, design_id)
                  ELSE FirstId(designs)
        run_id == NewUuid(d)
        d1 == add_experiment_run(TakeUuid(d), run_id, design, project_id)
    IN IF project_id = NoProject THEN MissingProject(5, d, project_id)
       ELSE IF design = None
       THEN Done(d, [Failure(5, project_id,
                             "No experiment design found. Run Agent 4 first.", 0)
                        EXCEPT !.arg_id = design_id])
       ELSE [db |-> d1,
             out |-> [OutBase EXCEPT !.kind = "started", !.stage = 5,
                                     !.project_id = project_id, !.arg_id = design_id,
                                     !.record_id = run_id, !.pred_id = design],
             pending |-> [run_id |-> run_id, design_id |-> design,
                          project_id |-> project_id, via |-> via,
                          data_requirements |->
                              RowOf(d.experiment_designs, design).data_requirements]]

\* the results_data dict of lines 93-103
SyntheticResults(data_requirements) ==
    [present |-> TRUE,
     samples_processed |-> IF data_requirements.min_samples = Absent THEN 1000
                           ELSE data_requirements.min_samples,
     metrics |-> <<85, 82, 88, 85>>]

\* an except handler that stores the partial results with the failure
ExperimentExecutionAgent_finish_keeps_results(d, pend, fault) ==
    IF pend.data_requirements.kind # "dict" \/ fault
    THEN Done(update_experiment_run(d, pend.run_id, "failed",
                                    [present |-> TRUE, samples_processed |-> 0,
                                     metrics |-> <<0>>],
                                    "execution error", "elapsed"),
              [Failure(5, pend.project_id, "execution error", 0) EXCEPT
                  !.record_id = pend.run_id, !.pred_id = pend.design_id])
    ELSE Done(update_experiment_run(d, pend.run_id, "completed",
                                    SyntheticResults(pend.data_requirements), "", "elapsed"),
              [Success(5, pend.project_id, 0) EXCEPT
                  !.record_id = pend.run_id, !.pred_id = pend.design_id])

\* lines 86-183: the try block, its except handler and the return.
\* pend.data_requirements is design["data_requirements"] as read at line 54/57;
\* fault: the UPDATE of line 109 raises.
ExperimentExecutionAgent_finish(d, pend, fault) ==
    IF pend.data_requirements.kind # "dict" \/ fault
    THEN Done(update_experiment_run(d, pend.run_id, "failed", NullResults,
                                    "execution error", "elapsed"),
              [Failure(5, pend.project_id, "execution error", 0) EXCEPT
                  !.record_id = pend.run_id, !.pred_id = pend.design_id])
    ELSE Done(update_experiment_run(d, pend.run_id, "completed",
                                    SyntheticResults(pend.data_requirements), "", "elapsed"),
              [Success(5, pend.project_id, 0) EXCEPT
                  !.record_id = pend.run_id, !.pred_id = pend.design_id])

(***************************************************************************)
(* Stage 6: ResultsAnalysisAgent                                           *)
(***************************************************************************)
Abs(x) == IF x < 0 THEN 0 - x ELSE x

\* a simulation whose low p-value starts at a mean of 0.7
_perform_statistical_analysis_inclusive(metrics, significance_level) ==
    LET RECURSIVE sum(_)
        sum(values) == IF values = <<>> THEN 0 ELSE Head(values) + sum(Tail(values))
        avg_metric == IF metrics # <<>> THEN sum(metrics) \div Len(metrics) ELSE 50
        p_value == IF avg_metric >= 70 THEN 3 ELSE 15
    IN [p_value |-> p_value, significance_level |-> significance_level,
        effect_size |-> (avg_metric - 50) * 2,
        statistically_significant |-> p_value < significance_level]

\* _perform_statistical_analysis: metrics is results_data.get("metrics", {}),
\* significance_level that of the hypothesis's success criteria.  p-values,
\* levels, metrics and effect sizes are kept in hundredths; the blocks of the
\* model have a whole mean.
_perform_statistical_analysis(metrics, significance_level) ==
    LET RECURSIVE sum(_)
        sum(values) == IF values = <<>> THEN 0 ELSE Head(values) + sum(Tail(values))
        avg_metric == IF metrics # <<>> THEN sum(metrics) \div Len(metrics) ELSE 50
        p_value == IF avg_metric > 70 THEN 3 ELSE 15
    IN [p_value |-> p_value, significance_level |-> significance_level,
        effect_size |-> (avg_metric - 50) * 2,
        statistically_significant |-> p_value < significance_level]

\* a rule that accepts whatever is significant
_make_decision_no_weak(statistical_results, min_effect) ==
    IF statistical_results.statistically_significant
    THEN "ACCEPT - Strong evidence supports hypothesis"
    ELSE IF statistical_results.p_value < 10
         THEN "INCONCLUSIVE - Marginally significant, needs more data"
    ELSE "REJECT - Insufficient evidence to support hypothesis"

\* _make_decision: min_effect is success_criteria.minimum_effect_size
_make_decision(statistical_results, min_effect) ==
    LET is_significant == statistical_results.statistically_significant
        p_value == statistical_results.p_value
        effect_size == statistical_results.effect_size
    IN IF is_significant /\ Abs(effect_size) >= min_effect
       THEN "ACCEPT - Strong evidence supports hypothesis"
       ELSE IF is_significant /\ Abs(effect_size) < min_effect
            THEN "ACCEPT (weak) - Statistically significant but small effect"
       ELSE IF p_value < 10
            THEN "INCONCLUSIVE - Marginally significant, needs more data"
       ELSE "REJECT - Insufficient evidence to support hypothesis"

\* a guard that looks for a run only, whatever it holds
no_completed_run_any(d, run) == run = None

\* line 68: if not run or not run.get("results_data")
no_completed_run(d, run) ==
    run = None \/ ~RowOf(d.experiment_runs, run).results_data.present

ResultsAnalysisAgent_execute(d, project_id, run_id, fault) ==
    LET runs == get_experiment_runs(d, project_id)
        run == IF run_id # None THEN FindId(runs, run_id) ELSE FirstId(runs)
        runRow == RowOf(d.experiment_runs, run)
        designs == get_experiment_designs(d, project_id)
        design == FindId(designs, runRow.design_id)
        hypotheses == get_hypotheses(d, project_id)
        hypothesis == FindId(hypotheses, RowOf(d.experiment_designs, design).hypothesis_id)
        success_criteria == RowOf(d.hypotheses, hypothesis).success_criteria
        statistical_results ==
            _perform_statistical_analysis(runRow.results_data.metrics,
                                          success_criteria.significance_level)
        decision == _make_decision(statistical_results, success_criteria.minimum_effect_size)
        analysis_id == NewUuid(d)
        d1 == add_analysis(TakeUuid(d), analysis_id, run, project_id, hypothesis, decision)
        fail(err) == Done(d, [Failure(6, project_id, err, 0) EXCEPT
                                 !.arg_id = run_id, !.pred_id = run])
    IN IF project_id = NoProject THEN MissingProject(6, d, project_id)
       ELSE IF no_completed_run(d, run)
       THEN fail("No completed experiment run found. Run Agent 5 first.")
       ELSE IF design = None THEN fail("Design not found for this run")
       ELSE IF hypothesis = None THEN fail("Hypothesis not found for this run")
       ELSE IF fault = 1
            THEN Done(d, [Raised(6, project_id, "completion error", 0)
                             EXCEPT !.arg_id = run_id, !.pred_id = run])
       ELSE Done(d1, [Success(6, project_id, 1) EXCEPT
                         !.record_id = analysis_id, !.pred_id = run, !.arg_id = run_id,
                         !.stats = statistical_results, !.decision = decision])

(***************************************************************************)
(* Cost tracker and workflow runner                                        *)
(***************************************************************************)
\* a recording that keeps only the new entry of the month
track_api_call_replaces(c, agent, tokens_used, cost) ==
    <<[agent |-> agent, tokens |-> tokens_used, cost |-> cost]>>

\* CostTracker.track_api_call: append one entry to the current month's list
track_api_call(c, agent, tokens_used, cost) ==
    Append(c, [agent |-> agent, tokens |-> tokens_used, cost |-> cost])

\* the month keys of costs.json ("%Y-%m"), and the processes holding a tracker
Months == 1..2
Trackers == {1, 2}

\* _load_costs when the file does not exist: {} (a month without key has no entry)
EmptyCosts == [m \in Months |-> <<>>]

\* _load_costs: the whole mapping of the file
_load_costs(file) == file

\* _save_costs: the file is rewritten with the whole in-memory mapping
_save_costs(mem) == mem

RECURSIVE SumCost(_)
SumCost(entries) ==
    IF entries = <<>> THEN 0 ELSE Head(entries).cost + SumCost(Tail(entries))

\* get_month_cost: sum(entry["cost"] for entry in self.costs[month]), 0 without key
get_month_cost(c, month) == SumCost(c[month])

\* settings.cost_alert_threshold, in percent
AlertThresholdPercent == 80

\* get_budget_status: spent is the in-memory total of the current month
get_budget_status(c, month, budget) ==
    LET current_month_cost == get_month_cost(c, month)
    IN [budget |-> budget, spent |-> current_month_cost,
        remaining |-> budget - current_month_cost,
        alert_threshold_reached |->
            IF budget > 0 THEN current_month_cost * 100 >= AlertThresholdPercent * budget
            ELSE 0 >= AlertThresholdPercent]

\* an alert that aborts the recording
_check_budget_alert_aborts(status) ==
    IF status.alert_threshold_reached THEN "abort" ELSE "quiet"

\* _check_budget_alert: two print calls when the threshold is reached
_check_budget_alert(status) ==
    IF status.alert_threshold_reached THEN "alert" ELSE "quiet"

\* a guard that forgets the estimate
can_afford_spent_only(status, estimated_cost) ==
    ~(status.spent > status.budget)

\* can_afford: (False, reason) when spent + estimated_cost > budget
can_afford(status, estimated_cost) ==
    LET new_total == status.spent + estimated_cost
    IN ~(new_total > status.budget)

\* the last call on a tracker: op is "none", "track" or "can_afford"
NoSpend ==
    [op |-> "none", tracker |-> 0, month |-> 0, cost |-> 0, returned |-> "",
     estimate |-> 0, afford |-> FALSE]

\* the names the agents can be registered under (register_agent takes any name)
ClassNames ==
    <<"LiteratureReviewAgent", "IdeaGenerationAgent", "HypothesisFormationAgent",
      "ExperimentDesignAgent", "ExperimentExecutionAgent", "ResultsAnalysisAgent">>
ShortNames ==
    <<"literature_review", "idea_generation", "hypothesis_formation",
      "experiment_design", "experiment_execution", "results_analysis">>
AgentName(naming, stage) ==
    IF naming = "class" THEN ClassNames[stage] ELSE ShortNames[stage]

IdleWorkflow ==
    [status |-> "idle", project_id |-> "", naming |-> "class", tasks |-> <<>>,
     state |-> {}, failed |-> FALSE]

\* a runner that returns before the log entry is written
run_agent_log_deferred(d, w, o) == d

\* run_agent lines 84-113 (execute returned o) and 115-131 (execute raised)
run_agent_log(d, w, o) ==
    IF o.raised
    THEN log_agent_run(d, w.project_id, AgentName(w.naming, o.stage), 0, 0,
                       [ideas |-> <<>>, error |-> ""], "failed", o.error)
    ELSE log_agent_run(d, w.project_id, AgentName(w.naming, o.stage),
                       o.tokens_used, o.cost_usd,
                       [ideas |-> o.ideas, error |-> o.error],
                       IF o.success THEN "completed" ELSE "failed", "")

run_agent_costs(c, w, o) ==
    IF o.raised THEN c
    ELSE track_api_call(c, AgentName(w.naming, o.stage), o.tokens_used, o.cost_usd)

\* a loop that swallows the exception and goes on with the next task
run_sequential_next_continues(w, o) ==
    [w EXCEPT !.state = @ \cup {AgentName(w.naming, o.stage)},
              !.tasks = Tail(@),
              !.status = IF Tail(w.tasks) = <<>> THEN "done" ELSE "running",
              !.failed = @ \/ ~o.success]

\* run_agent line 105 and the loop of run_sequential: an exception leaves the loop
run_sequential_next(w, o) ==
    IF o.raised THEN [w EXCEPT !.status = "raised"]
    ELSE [w EXCEPT !.state = @ \cup {AgentName(w.naming, o.stage)},
                   !.tasks = Tail(@),
                   !.status = IF Tail(w.tasks) = <<>> THEN "done" ELSE "running",
                   !.failed = @ \/ ~o.success]

\* tests/test_end_to_end_workflow.py, main: each stage is executed directly, and
\* the script returns at the first output with success=false or at an exception
main_next(w, o) ==
    IF o.raised THEN [w EXCEPT !.status = "raised"]
    ELSE IF ~o.success THEN [w EXCEPT !.status = "done", !.failed = TRUE]
    ELSE [w EXCEPT !.tasks = Tail(@),
                   !.status = IF Tail(w.tasks) = <<>> THEN "done" ELSE "running"]

\* an execution returns (or raises) to its caller: a single direct call
\* ("direct"), the end-to-end script ("script") or run_agent ("workflow")
Complete(via, d, o) ==
    /\ out' = [o EXCEPT !.via = via]
    /\ UNCHANGED store
    /\ CASE via = "workflow" ->
               /\ db' = run_agent_log(d, wf, o)
               /\ costs' = run_agent_costs(costs, wf, o)
               /\ wf' = run_sequential_next(wf, o)
         [] via = "script" ->
               /\ db' = d
               /\ wf' = main_next(wf, o)
               /\ UNCHANGED costs
         [] OTHER ->
               /\ db' = d
               /\ UNCHANGED <<costs, wf>>

\* r is the result of an execute: returned, raised, or (Stage 5) run inserted
Exec(via, r) ==
    IF r.pending # NoPending
    THEN /\ db' = r.db
         /\ pending' = r.pending
         /\ out' = [r.out EXCEPT !.via = via]
         /\ UNCHANGED <<costs, wf, store>>
    ELSE /\ Complete(via, r.db, r.out)
         /\ UNCHANGED pending

(***************************************************************************)
(* Inputs of the executions                                                *)
(***************************************************************************)
SearchResults ==
    {<<>>,
     <<[paperId |-> "s1", abstract |-> FALSE], [paperId |-> "s2", abstract |-> TRUE]>>}
RelevanceReplies == {[parsable |-> TRUE, value |-> 8]}
\* the replies to the idea prompt: text that is not JSON, a list with an idea
\* that lacks a key between two whole ones, a list with an item that is no
\* object, and a list whose only idea lacks a key
IdeaBatches ==
    LET idea(t, ks) == [object |-> TRUE, title |-> t, keys |-> ks]
    IN {[kind |-> "unparsable", items |-> <<>>],
        [kind |-> "list", items |-> <<idea("idea_a", RequiredKeys),
                                      idea("idea_c", RequiredKeys \ {"risks"}),
                                      idea("idea_b", RequiredKeys)>>],
        [kind |-> "list", items |-> <<idea("idea_a", RequiredKeys), NotAnObject>>],
        [kind |-> "list", items |-> <<idea("idea_c", RequiredKeys \ {"title"})>>]}
\* the scoring replies for the ideas of a batch, in batch order
ScoreReplies ==
    {<<[parsable |-> FALSE, novelty |-> 0, feasibility |-> 0, impact |-> 0],
       [parsable |-> TRUE, novelty |-> 9, feasibility |-> 7, impact |-> 4],
       [parsable |-> TRUE, novelty |-> 5, feasibility |-> 5, impact |-> 5]>>}
DataReqReplies ==
    {[kind |-> "dict", min_samples |-> 500], [kind |-> "unparsable", min_samples |-> Absent],
     [kind |-> "nondict", min_samples |-> Absent],
     [kind |-> "dict", min_samples |-> NonNumeric]}
Titles == {NoTitle, "idea_a", "no_such_idea"}

\* fault: the completion call that raises (0: none raises)
Stage1Results(d, p) ==
    {LiteratureReviewAgent_execute(d, p, MaxPapersDefault, papers,
                                   [i \in 1..Len(papers) |-> reply], fault) :
        papers \in SearchResults, reply \in RelevanceReplies, fault \in {0, 1, 2}}
Stage2Results(d, p) ==
    {IdeaGenerationAgent_execute(d, p, batch, replies, fault) :
        batch \in IdeaBatches, replies \in ScoreReplies, fault \in {0, 2, 3}}
HypothesisReplies == {"dict", "unparsable", "nondict"}
Stage3Results(d, p, titles) ==
    {HypothesisFormationAgent_execute(d, p, t, reply, fault) :
        t \in titles, reply \in HypothesisReplies, fault \in {0, 2}}
Stage4Results(d, p, ids) ==
    {ExperimentDesignAgent_execute(d, p, id, reply, fault) :
        id \in ids, reply \in DataReqReplies, fault \in {0, 2}}
Stage5Results(d, p, ids, via) ==
    {ExperimentExecutionAgent_begin(d, p, id, via) : id \in ids}
Stage6Results(d, p, ids) ==
    {ResultsAnalysisAgent_execute(d, p, id, fault) : id \in ids, fault \in {0, 1}}

\* context.get("<key>") of a direct caller: absent, a row of the project, a row
\* of another project, or an id no row carries
IdArgs(table) == {None, NewUuid(db)} \cup {r.id : r \in table}

\* run_sequential passes context=self.state, whose keys are agent names: the
\* keys idea_title, hypothesis_id, design_id and run_id are never in it
StageResults(stage, d, p, via) ==
    CASE stage = 1 -> Stage1Results(d, p)
      [] stage = 2 -> Stage2Results(d, p)
      [] stage = 3 -> Stage3Results(d, p, {NoTitle})
      [] stage = 4 -> Stage4Results(d, p, {None})
      [] stage = 5 -> Stage5Results(d, p, {None}, via)
      [] stage = 6 -> Stage6Results(d, p, {None})

(***************************************************************************)
(* Actions                                                                 *)
(***************************************************************************)
Init ==
    /\ db = [projects |-> {}, papers |-> {}, agent_runs |-> <<>>, hypotheses |-> {},
             experiment_designs |-> {}, experiment_runs |-> {}, analyses |-> {},
             now |-> 1, uuid |-> 0]
    /\ costs = <<>>
    /\ wf = IdleWorkflow
    /\ pending = NoPending
    /\ ops = 0
    /\ out = OutBase
    /\ store = [file |-> EmptyCosts, mem |-> [i \in Trackers |-> EmptyCosts],
                live |-> {}, month |-> 1, spends |-> 0, last |-> NoSpend,
                budget |-> [i \in Trackers |-> 0]]

Direct == ops < MaxOps /\ ops' = ops + 1

\* an agent's execute called directly, as tests/test_end_to_end_workflow.py does
ExecStage1 == \E p \in Projects : \E r \in Stage1Results(db, p) :
    Direct /\ Exec("direct", r)
ExecStage2 == \E p \in Projects : \E r \in Stage2Results(db, p) :
    Direct /\ Exec("direct", r)
ExecStage3 == \E p \in Projects : \E r \in Stage3Results(db, p, Titles) :
    Direct /\ Exec("direct", r)
ExecStage4 == \E p \in Projects : \E r \in Stage4Results(db, p, IdArgs(db.hypotheses)) :
    Direct /\ Exec("direct", r)
ExecStage5 == \E p \in Projects :
    \E r \in Stage5Results(db, p, IdArgs(db.experiment_designs), "direct") :
        pending = NoPending /\ Direct /\ Exec("direct", r)
ExecStage6 == \E p \in Projects : \E r \in Stage6Results(db, p, IdArgs(db.experiment_runs)) :
    Direct /\ Exec("direct", r)

\* the second half of a Stage-5 execution
FinishStage5 == \E fault \in BOOLEAN :
    /\ pending # NoPending
    /\ LET r == ExperimentExecutionAgent_finish(db, pending, fault)
       IN Complete(pending.via, r.db, r.out)
    /\ pending' = NoPending
    /\ UNCHANGED ops

TaskLists == {<<1, 2, 3, 4, 5, 6>>, <<2, 3>>}

\* ResearchWorkflow(project_id), register_agent for each stage, run_sequential(tasks)
StartWorkflow == \E p \in {"P1"}, naming \in {"class", "short"}, tasks \in TaskLists :
    /\ wf.status = "idle"
    /\ wf' = [IdleWorkflow EXCEPT !.status = "running", !.project_id = p,
                                  !.naming = naming, !.tasks = tasks]
    /\ out' = [OutBase EXCEPT !.kind = "start", !.via = "workflow", !.project_id = p]
    /\ UNCHANGED <<db, costs, pending, ops, store>>

\* one iteration of run_sequential: run_agent(agent_name, task, context=self.state)
RunAgent ==
    /\ wf.status = "running" /\ wf.naming # "script"
    /\ pending = NoPending
    /\ \E r \in StageResults(Head(wf.tasks), db, wf.project_id, "workflow") :
          Exec("workflow", r)
    /\ UNCHANGED ops

\* the end-to-end script starts: a project id made of the current time, which
\* no other caller uses
StartMain ==
    /\ wf.status = "idle"
    /\ wf' = [IdleWorkflow EXCEPT !.status = "running", !.project_id = ScriptProject,
                                  !.naming = "script", !.tasks = <<1, 2, 3, 4, 5, 6>>]
    /\ out' = [OutBase EXCEPT !.kind = "start", !.via = "script",
                              !.project_id = ScriptProject]
    /\ UNCHANGED <<db, costs, pending, ops, store>>

\* the next agentN.execute(...) of the script, with the context it passes (no ids)
MainStep ==
    /\ wf.status = "running" /\ wf.naming = "script"
    /\ pending = NoPending
    /\ \E r \in StageResults(Head(wf.tasks), db, wf.project_id, "script") :
          Exec("script", r)
    /\ UNCHANGED ops

\* the Database methods called by another client of the ledger
ApiAddExperimentRun ==
    \E p \in Projects :
    \E run_id \in {NewUuid(db)} \cup {r.id : r \in db.experiment_runs} :
    \E design_id \in {NewUuid(db)} \cup {x.id : x \in db.experiment_designs} :
        /\ Direct
        /\ db' = add_experiment_run(TakeUuid(db), run_id, design_id, p)
        /\ out' = [OutBase EXCEPT !.kind = "api", !.via = "direct", !.project_id = p,
                                  !.record_id = run_id, !.error = "add_experiment_run"]
        /\ UNCHANGED <<costs, wf, pending, store>>

\* no results, or results whose metrics average exactly 0.7
ApiResults == {NullResults, [present |-> TRUE, samples_processed |-> 7, metrics |-> <<60, 80>>]}

ApiUpdateExperimentRun ==
    \E run_id \in {r.id : r \in db.experiment_runs} :
    \E status \in {"", "queued", "running", "completed", "failed"} :
    \E results_data \in ApiResults :
        /\ Direct
        /\ db' = update_experiment_run(db, run_id, status, results_data, "", "")
        /\ out' = [OutBase EXCEPT !.kind = "api", !.via = "direct",
                                  !.record_id = run_id, !.error = "update_experiment_run"]
        /\ UNCHANGED <<costs, wf, pending, store>>

(***************************************************************************)
(* The cost store alone: processes that each import services/cost_tracker  *)
(* (which constructs the module-level CostTracker) and record spend        *)
(***************************************************************************)
SpendCosts == {1, 2}

\* CostTracker.__init__ in process i: self.costs = self._load_costs()
\* with budget_monthly = b
NewCostTracker == \E i \in Trackers \ store.live, b \in {3, 5} :
    /\ store' = [store EXCEPT !.mem[i] = _load_costs(store.file),
                              !.budget[i] = b,
                              !.live = @ \cup {i}, !.last = NoSpend]
    /\ UNCHANGED <<db, costs, wf, pending, ops, out>>

\* cost_tracker.track_api_call(agent, tokens_used, cost) in process i
TrackApiCall == \E i \in store.live, cost \in SpendCosts :
    /\ store.spends < MaxSpends
    /\ LET month_key == store.month
           mine == [store.mem[i] EXCEPT ![month_key] =
                       track_api_call(@, ClassNames[2], LLMReply.tokens, cost)]
       IN store' = [store EXCEPT !.mem[i] = mine, !.file = _save_costs(mine),
                                 !.spends = @ + 1,
                                 !.last = [NoSpend EXCEPT
                                     !.op = "track", !.tracker = i,
                                     !.month = month_key, !.cost = cost,
                                     !.returned = _check_budget_alert(
                                         get_budget_status(mine, month_key,
                                                           store.budget[i]))]]
    /\ UNCHANGED <<db, costs, wf, pending, ops, out>>

\* datetime.now() reaches the next month
MonthPasses ==
    /\ store.month + 1 \in Months
    /\ store' = [store EXCEPT !.month = @ + 1, !.last = NoSpend]
    /\ UNCHANGED <<db, costs, wf, pending, ops, out>>

\* cost_tracker.can_afford(estimated_cost) in process i
CanAfford == \E i \in store.live, e \in {0, 1, 2} :
    /\ store' = [store EXCEPT !.last = [NoSpend EXCEPT
                    !.op = "can_afford", !.tracker = i, !.month = store.month,
                    !.estimate = e,
                    !.afford = can_afford(get_budget_status(store.mem[i], store.month,
                                                            store.budget[i]), e)]]
    /\ UNCHANGED <<db, costs, wf, pending, ops, out>>

\* the workflow runner with a document sink whose saves can raise
SaveIndices == 1..2
SinkFails(r, fails) == [r EXCEPT !.out = save_to_obsidian(@, fails)]

SinkRunAgent == \E fails \in SUBSET SaveIndices :
    /\ wf.status = "running" /\ wf.naming # "script"
    /\ pending = NoPending
    /\ \E r \in StageResults(Head(wf.tasks), db, wf.project_id, "workflow") :
          Exec("workflow", SinkFails(r, fails))
    /\ UNCHANGED ops

SinkFinishStage5 == \E fault \in BOOLEAN, fails \in SUBSET SaveIndices :
    /\ pending # NoPending
    /\ LET r == SinkFails(ExperimentExecutionAgent_finish(db, pending, fault), fails)
       IN Complete(pending.via, r.db, r.out)
    /\ pending' = NoPending
    /\ UNCHANGED ops

\* the end-to-end script with the same sink
SinkMainStep == \E fails \in SUBSET SaveIndices :
    /\ wf.status = "running" /\ wf.naming = "script"
    /\ pending = NoPending
    /\ \E r \in StageResults(Head(wf.tasks), db, wf.project_id, "script") :
          Exec("script", SinkFails(r, fails))
    /\ UNCHANGED ops

\* one agent's execute called directly, with an empty context and with or
\* without a project id
SinkExecStage == \E k \in 1..6, p \in Projects \cup {NoProject}, fails \in SUBSET SaveIndices :
    /\ pending = NoPending
    /\ \E r \in StageResults(k, db, p, "direct") :
          Direct /\ Exec("direct", SinkFails(r, fails))

(***************************************************************************)
(* The statistics and the decision of Stage 6 alone.  p-values, levels,    *)
(* metrics and effect sizes are kept in hundredths.                        *)
(***************************************************************************)
\* Stage 6 holds either the metrics of a run or the statistics computed from
\* them, and the success criteria of the hypothesis
DecisionInit ==
    LET PValues == {3, 8, 10, 15}
        Levels == {1, 5, 20}
        Effects == {-60, -10, 0, 20, 30, 60}
        MinEffects == {30, 50}
    IN
    /\ db = [projects |-> {}, papers |-> {}, agent_runs |-> <<>>, hypotheses |-> {},
             experiment_designs |-> {}, experiment_runs |-> {}, analyses |-> {},
             now |-> 1, uuid |-> 0]
    /\ costs = <<>>
    /\ wf = IdleWorkflow
    /\ pending = NoPending
    /\ ops = 0
    /\ store = [file |-> EmptyCosts, mem |-> [i \in Trackers |-> EmptyCosts],
                live |-> {}, month |-> 1, spends |-> 0, last |-> NoSpend,
                budget |-> [i \in Trackers |-> 0]]
    /\ \/ \E metrics \in {<<>>, <<50>>, <<60, 80>>, <<71>>, <<85, 82, 88, 85>>},
             sig \in Levels, min \in MinEffects :
             out = [kind |-> "metrics", stage |-> 6, metrics |-> metrics,
                    min_effect |-> min, decision |-> "",
                    stats |-> [p_value |-> 0, significance_level |-> sig,
                               effect_size |-> 0, statistically_significant |-> FALSE]]
       \/ \E pv \in PValues, sig \in Levels, eff \in Effects, min \in MinEffects :
             out = [kind |-> "stats", stage |-> 6, metrics |-> <<>>,
                    min_effect |-> min, decision |-> "",
                    stats |-> [p_value |-> pv, significance_level |-> sig,
                               effect_size |-> eff,
                               statistically_significant |-> pv < sig]]

Analyse ==
    /\ out.kind = "metrics"
    /\ out' = [out EXCEPT !.kind = "stats",
                  !.stats = _perform_statistical_analysis(out.metrics,
                                                          out.stats.significance_level)]
    /\ UNCHANGED <<db, costs, wf, pending, ops, store>>

Decide ==
    /\ out.kind = "stats"
    /\ out' = [out EXCEPT !.kind = "decided",
                  !.decision = _make_decision(out.stats, out.min_effect)]
    /\ UNCHANGED <<db, costs, wf, pending, ops, store>>

DecisionNext == Analyse \/ Decide

DecisionSpec == DecisionInit /\ [][DecisionNext]_vars

(***************************************************************************)
(* The two scoring functions alone, applied to any reply                   *)
(***************************************************************************)
ScoreValues == {0, 5, 11, NaN}
ScoreFields ==
    {[numeric |-> TRUE, val |-> v] : v \in ScoreValues} \cup {[numeric |-> FALSE, val |-> 0]}
MaxFields == 4
ScoreReplyTexts == UNION {[1..n -> ScoreFields] : n \in 1..MaxFields}

\* the reply to a scoring prompt of Stage 1 (for a paper with or without
\* abstract) or of Stage 2 has arrived
ScoreInit ==
    /\ db = [projects |-> {}, papers |-> {}, agent_runs |-> <<>>, hypotheses |-> {},
             experiment_designs |-> {}, experiment_runs |-> {}, analyses |-> {},
             now |-> 1, uuid |-> 0]
    /\ costs = <<>>
    /\ wf = IdleWorkflow
    /\ pending = NoPending
    /\ ops = 0
    /\ store = [file |-> EmptyCosts, mem |-> [i \in Trackers |-> EmptyCosts],
                live |-> {}, month |-> 1, spends |-> 0, last |-> NoSpend,
                budget |-> [i \in Trackers |-> 0]]
    /\ \E stage \in {1, 2}, fields \in ScoreReplyTexts, abstract \in BOOLEAN :
          /\ stage = 2 => abstract
          /\ stage = 1 => Len(fields) = 1
          /\ out = [kind |-> "reply", stage |-> stage, fields |-> fields,
                    abstract |-> abstract, scores |-> <<>>, overall |-> 0]

ScoreRelevance ==
    /\ out.kind = "reply" /\ out.stage = 1
    /\ out' = [out EXCEPT !.kind = "scored",
                  !.scores = <<_score_relevance([abstract |-> out.abstract],
                                                ParseScore(out.fields[1]))[1]>>]
    /\ UNCHANGED <<db, costs, wf, pending, ops, store>>

ScoreIdea ==
    /\ out.kind = "reply" /\ out.stage = 2
    /\ LET s == _score_idea(ParseScores(out.fields))
       IN out' = [out EXCEPT !.kind = "scored",
                     !.scores = <<s.novelty, s.feasibility, s.impact>>,
                     !.overall = s.overall]
    /\ UNCHANGED <<db, costs, wf, pending, ops, store>>

ScoreNext == ScoreRelevance \/ ScoreIdea

ScoreSpec == ScoreInit /\ [][ScoreNext]_vars

(***************************************************************************)
(* Stage 1 alone, with any limit, any search result and any scoring reply  *)
(***************************************************************************)
\* LiteratureReviewAgent.execute called with context {"max_papers": limit}; the
\* search returns n papers of distinct ids, with or without abstract
ExecReview ==
    \E p \in Projects, limit \in {1, 2}, n \in 0..3, fault \in {0, 1} :
    \E abstracts \in [1..n -> BOOLEAN] :
    \E replies \in [1..n -> {[parsable |-> TRUE, value |-> 8],
                             [parsable |-> TRUE, value |-> 0],
                             [parsable |-> FALSE, value |-> 0]}] :
        LET ids == <<"s1", "s2", "s3">>
            papers == [i \in 1..n |-> [paperId |-> ids[i], abstract |-> abstracts[i]]]
        IN Direct /\ Exec("direct", LiteratureReviewAgent_execute(db, p, limit, papers,
                                                                  replies, fault))

ReviewSpec == Init /\ [][ExecReview]_vars

SinkNext ==
    \/ StartWorkflow \/ SinkRunAgent \/ SinkFinishStage5
    \/ StartMain \/ SinkMainStep \/ SinkExecStage

SinkSpec == Init /\ [][SinkNext]_vars

CostNext == NewCostTracker \/ TrackApiCall \/ MonthPasses \/ CanAfford

CostSpec == Init /\ [][CostNext]_vars

(***************************************************************************)
(* The ledger alone: a client calling the Database methods directly        *)
(***************************************************************************)
Call == ops < MaxAdds /\ ops' = ops + 1

\* the arguments of an add call, as a row without its timestamp and status
Payload(method, r) ==
    CASE method = "add_paper" ->
            [id |-> r.id, project_id |-> r.project_id, relevance_score |-> r.relevance_score]
      [] method = "add_hypothesis" ->
            [id |-> r.id, project_id |-> r.project_id, idea_title |-> r.idea_title]
      [] method = "add_experiment_design" ->
            [id |-> r.id, project_id |-> r.project_id, hypothesis_id |-> r.hypothesis_id,
             data_requirements |-> r.data_requirements]
      [] method = "add_experiment_run" ->
            [id |-> r.id, project_id |-> r.project_id, design_id |-> r.design_id]
      [] method = "add_analysis" ->
            [id |-> r.id, project_id |-> r.project_id, run_id |-> r.run_id,
             hypothesis_id |-> r.hypothesis_id, decision |-> r.decision]

TableOf(method, d) ==
    CASE method = "add_paper" -> d.papers
      [] method = "add_hypothesis" -> d.hypotheses
      [] method = "add_experiment_design" -> d.experiment_designs
      [] method = "add_experiment_run" -> d.experiment_runs
      [] method = "add_analysis" -> d.analyses

\* the call just made: its method, its arguments, and whether the table held
\* a row of that id with other arguments before
DbCall(method, args) ==
    /\ out' = [kind |-> "api", stage |-> 0, via |-> "direct", method |-> method,
               project_id |-> args.project_id, raised |-> FALSE, args |-> args,
               overwrote |-> \E r \in TableOf(method, db) :
                                r.id = args.id /\ Payload(method, r) # args]
    /\ UNCHANGED <<costs, wf, pending, store>>

LedgerIds == {1, 2}
PaperIds == {"s1", "s2"}
LedgerRefs == {1, 2}

DbCreateProject == \E p \in Projects :
    /\ Call
    /\ IF \E r \in db.projects : r.id = p
       THEN /\ db' = db
            /\ out' = [kind |-> "api", stage |-> 0, via |-> "direct",
                       method |-> "create_project", project_id |-> p, raised |-> TRUE]
       ELSE /\ db' = create_project(db, p)
            /\ out' = [kind |-> "api", stage |-> 0, via |-> "direct",
                       method |-> "create_project", project_id |-> p, raised |-> FALSE]
    /\ UNCHANGED <<costs, wf, pending, store>>

DbAddPaper == \E id \in PaperIds, p \in Projects, score \in {3, 8} :
    /\ Call
    /\ db' = add_paper(db, id, p, score)
    /\ DbCall("add_paper", [id |-> id, project_id |-> p, relevance_score |-> score])

\* a client adds idea_a without criteria of its own and idea_b with stricter ones
DbAddHypothesis == \E id \in LedgerIds, p \in Projects, title \in {"idea_a", "idea_b"} :
    /\ Call
    /\ db' = add_hypothesis(db, id, p, title,
                            IF title = "idea_a" THEN DefaultCriteria
                            ELSE [significance_level |-> 1, minimum_effect_size |-> 50])
    /\ DbCall("add_hypothesis", [id |-> id, project_id |-> p, idea_title |-> title])

DbAddExperimentDesign == \E id \in LedgerIds, h \in LedgerRefs, p \in Projects :
    /\ Call
    /\ db' = add_experiment_design(db, id, h, p, [kind |-> "dict", min_samples |-> 500])
    /\ DbCall("add_experiment_design",
              [id |-> id, project_id |-> p, hypothesis_id |-> h,
               data_requirements |-> [kind |-> "dict", min_samples |-> 500]])

DbAddExperimentRun == \E id \in LedgerIds, g \in LedgerRefs, p \in Projects :
    /\ Call
    /\ db' = add_experiment_run(db, id, g, p)
    /\ DbCall("add_experiment_run", [id |-> id, project_id |-> p, design_id |-> g])

DbAddAnalysis == \E id \in LedgerIds, p \in Projects, decision \in {"ACCEPT", "REJECT"} :
    /\ Call
    /\ db' = add_analysis(db, id, 1, p, 1, decision)
    /\ DbCall("add_analysis", [id |-> id, project_id |-> p, run_id |-> 1,
                               hypothesis_id |-> 1, decision |-> decision])

LedgerNext ==
    \/ DbCreateProject \/ DbAddPaper \/ DbAddHypothesis \/ DbAddExperimentDesign
    \/ DbAddExperimentRun \/ DbAddAnalysis

LedgerSpec == Init /\ [][LedgerNext]_vars

(***************************************************************************)
(* Stage 4 alone, over hypotheses added to the ledger, with any sample     *)
(* size in the reply to the data-requirements prompt                       *)
(***************************************************************************)
\* ExperimentDesignAgent.execute called with an empty context; the reply holds
\* min_samples = m (or lacks the key, or holds a string), or is not JSON, or
\* is JSON of another type
ExecDesign ==
    \E p \in Projects, fault \in {0, 1},
       m \in {Absent, NonNumeric, 0, 999, 1000, 9999, 10000, 20000},
       kind \in {"dict", "unparsable", "nondict"} :
        /\ Call
        /\ Exec("direct", ExperimentDesignAgent_execute(
                              db, p, None, [kind |-> kind, min_samples |-> m], fault))

DesignSpec == Init /\ [][DbAddHypothesis \/ ExecDesign]_vars

(***************************************************************************)
(* Stage 6 alone, over hypotheses, designs and runs added to the ledger by *)
(* a client of the Database API, whatever they refer to                    *)
(***************************************************************************)
\* update_experiment_run(run_id, status="completed", results_data=...) on a
\* queued run, as the second half of Stage 5 calls it
DbCompleteRun == \E r \in db.experiment_runs :
    /\ r.status = "queued"
    /\ db' = update_experiment_run(db, r.id, "completed",
                                   SyntheticResults([kind |-> "dict", min_samples |-> 500]),
                                   "", "elapsed")
    /\ out' = [kind |-> "api", stage |-> 0, via |-> "direct",
               method |-> "update_experiment_run", project_id |-> r.project_id,
               raised |-> FALSE]
    /\ UNCHANGED <<costs, wf, pending, ops, store>>

\* ResultsAnalysisAgent.execute called with or without a run_id in the context
ExecAnalysis ==
    \E p \in Projects, fault \in {0, 1},
       run_id \in {None} \cup {r.id : r \in db.experiment_runs} :
        /\ Call
        /\ Exec("direct", ResultsAnalysisAgent_execute(db, p, run_id, fault))

AnalysisSpec ==
    Init /\ [][DbAddHypothesis \/ DbAddExperimentDesign \/ DbAddExperimentRun
               \/ DbCompleteRun \/ ExecAnalysis]_vars

(***************************************************************************)
(* Stages 1 to 3 run again and again through the runner: each invocation   *)
(* builds a ResearchWorkflow for a project, registers the agents under     *)
(* their class names and calls run_sequential                              *)
(***************************************************************************)
StartRerun == \E p \in Projects, tasks \in {<<1, 2>>, <<2>>, <<3>>, <<2, 3>>} :
    /\ Call
    /\ wf.status \in {"idle", "done", "raised"}
    /\ wf' = [IdleWorkflow EXCEPT !.status = "running", !.project_id = p,
                                  !.naming = "class", !.tasks = tasks]
    /\ out' = [OutBase EXCEPT !.kind = "start", !.via = "workflow", !.project_id = p]
    /\ UNCHANGED <<db, costs, pending, store>>

RerunSpec == Init /\ [][StartRerun \/ RunAgent]_vars

(***************************************************************************)
(* Two invocations of run_sequential on the same project and ledger, each  *)
(* on a ResearchWorkflow of its own, taking turns between two stages.  wf  *)
(* is the invocation whose turn it is and wf.other the one that waits;     *)
(* made[k] is the record id that self.state holds in the results of stage  *)
(* k (None when they hold none).                                           *)
(***************************************************************************)
Invocation(i) ==
    [status |-> "running", project_id |-> "P1", naming |-> "class",
     tasks |-> <<1, 2, 3, 4, 5, 6>>, state |-> {}, failed |-> FALSE,
     inv |-> i, made |-> [k \in 1..6 |-> None]]

PairInit ==
    /\ db = [projects |-> {}, papers |-> {}, agent_runs |-> <<>>, hypotheses |-> {},
             experiment_designs |-> {}, experiment_runs |-> {}, analyses |-> {},
             now |-> 1, uuid |-> 0]
    /\ costs = <<>>
    /\ wf = [f \in DOMAIN Invocation(1) \cup {"other"} |->
                IF f = "other" THEN Invocation(2) ELSE Invocation(1)[f]]
    /\ pending = NoPending
    /\ ops = 0
    /\ out = OutBase
    /\ store = [file |-> EmptyCosts, mem |-> [i \in Trackers |-> EmptyCosts],
                live |-> {}, month |-> 1, spends |-> 0, last |-> NoSpend,
                budget |-> [i \in Trackers |-> 0]]

\* run_agent lines 84-113 or 115-131 in the invocation whose turn it is
PairComplete(d, o) ==
    /\ db' = run_agent_log(d, wf, o)
    /\ costs' = run_agent_costs(costs, wf, o)
    /\ wf' = [run_sequential_next(wf, o) EXCEPT
                 !.made[o.stage] = IF o.success THEN o.record_id ELSE @]
    /\ out' = [o EXCEPT !.via = "workflow"]
    /\ UNCHANGED store

\* one iteration of run_sequential in the invocation whose turn it is
PairRunAgent ==
    /\ wf.status = "running" /\ pending = NoPending
    /\ \E r \in StageResults(Head(wf.tasks), db, wf.project_id, "workflow") :
          IF r.pending # NoPending
          THEN /\ db' = r.db
               /\ pending' = r.pending
               /\ out' = [r.out EXCEPT !.via = "workflow"]
               /\ UNCHANGED <<costs, wf, store>>
          ELSE PairComplete(r.db, r.out) /\ UNCHANGED pending
    /\ UNCHANGED ops

PairFinishStage5 == \E fault \in BOOLEAN :
    /\ pending # NoPending
    /\ LET r == ExperimentExecutionAgent_finish(db, pending, fault)
       IN PairComplete(r.db, r.out)
    /\ pending' = NoPending
    /\ UNCHANGED ops

\* the other invocation takes its turn
Switch ==
    /\ pending = NoPending
    /\ wf.other.status = "running"
    /\ wf' = [f \in DOMAIN wf |->
                 IF f = "other" THEN [g \in DOMAIN wf \ {"other"} |-> wf[g]]
                 ELSE wf.other[f]]
    /\ out' = [OutBase EXCEPT !.kind = "switch", !.via = "workflow",
                              !.project_id = wf.project_id]
    /\ UNCHANGED <<db, costs, pending, ops, store>>

PairSpec == PairInit /\ [][PairRunAgent \/ PairFinishStage5 \/ Switch]_vars

Stages ==
    \/ ExecStage1 \/ ExecStage2 \/ ExecStage3 \/ ExecStage4 \/ ExecStage5 \/ ExecStage6
    \/ FinishStage5 \/ StartWorkflow \/ RunAgent \/ StartMain \/ MainStep

Next == Stages \/ ApiAddExperimentRun \/ ApiUpdateExperimentRun

\* the agents and the runner only
StageSpec == Init /\ [][Stages]_vars
\* the agents, the runner and other clients of the ledger
Spec == Init /\ [][Next]_vars

(***************************************************************************)
(* Vocabulary of the properties                                            *)
(***************************************************************************)
\* this step is (the start of) an execution of stage k; out' describes it
StageStep(k) == out'.kind \in {"exec", "started"} /\ out'.stage = k
\* this step is the second half of a Stage-5 execution
IsFinish == pending # NoPending /\ pending' = NoPending
\* this step is run_agent calling execute
InvokeStep == pending = NoPending /\ out'.via = "workflow" /\ out'.kind \in {"exec", "started"}
\* this step is run_agent returning or re-raising
RunAgentEnds == out'.via = "workflow" /\ out'.kind = "exec"

ProjectRows(table, p) == {r \in table : r.project_id = p}
IdeaRuns(d, p) ==
    {i \in 1..Len(d.agent_runs) :
        /\ d.agent_runs[i].project_id = p
        /\ d.agent_runs[i].agent_name = "IdeaGenerationAgent"
        /\ d.agent_runs[i].status = "completed"}

HasPapers(d, p) == ProjectRows(d.papers, p) # {}
HasIdeas(d, p) == \E i \in IdeaRuns(d, p) : d.agent_runs[i].results.ideas # <<>>
HasHypothesis(d, p) == ProjectRows(d.hypotheses, p) # {}
HasDesign(d, p) == ProjectRows(d.experiment_designs, p) # {}
HasResults(d, p) == \E r \in ProjectRows(d.experiment_runs, p) : r.results_data.present

\* the agent number an error text tells the caller to run ("Run Agent n first."), or 0
AgentToRun(err) ==
    CASE err = "No ideas found. Run Agent 2 first." -> 2
      [] err = "No hypothesis found. Run Agent 3 first." -> 3
      [] err = "No experiment design found. Run Agent 4 first." -> 4
      [] err = "No completed experiment run found. Run Agent 5 first." -> 5
      [] OTHER -> 0

\* the stage's own table is the same before and after the step
NoStageRecordWritten ==
    /\ db'.hypotheses = db.hypotheses
    /\ db'.experiment_designs = db.experiment_designs
    /\ db'.experiment_runs = db.experiment_runs
    /\ db'.analyses = db.analyses

(***************************************************************************)
(* C1.  Ordering: a step in which Stage 2, 3, 4, 5 or 6 returns            *)
(* success=true, or writes a row of its own table, starts in a state where *)
(* the predecessor record of the project exists: a paper for Stage 2, a    *)
(* completed idea-generation run with at least one idea for Stage 3, a     *)
(* hypothesis for Stage 4, a design for Stage 5 (whose second half         *)
(* succeeds only for the design of the project resolved by its first       *)
(* half), a run with results for Stage 6.                                  *)
(***************************************************************************)
C1_OrderingStep ==
    LET p == out'.project_id
    IN /\ (StageStep(2) /\ out'.success) => HasPapers(db, p)
       /\ (StageStep(3) /\ (out'.success \/ db'.hypotheses # db.hypotheses))
             => HasIdeas(db, p)
       /\ (StageStep(4) /\ (out'.success \/ db'.experiment_designs # db.experiment_designs))
             => HasHypothesis(db, p)
       /\ (StageStep(5) /\ ~IsFinish /\ db'.experiment_runs # db.experiment_runs)
             => HasDesign(db, p)
       /\ (StageStep(5) /\ out'.success)
             => /\ IsFinish
                /\ pending.design_id # None
                /\ \E g \in ProjectRows(db.experiment_designs, p) :
                      g.id = pending.design_id
       /\ (StageStep(6) /\ (out'.success \/ db'.analyses # db.analyses))
             => HasResults(db, p)

C1_Ordering == [][C1_OrderingStep]_vars

\* Stage 6 has succeeded, on top of a run, a design and a hypothesis
C1_Witness ==
    /\ out.kind = "exec" /\ out.stage = 6 /\ out.success
    /\ HasResults(db, out.project_id) /\ HasDesign(db, out.project_id)
    /\ HasHypothesis(db, out.project_id) /\ HasIdeas(db, out.project_id)

(***************************************************************************)
(* C2.  A stage (2..6) executed for a project without a predecessor record *)
(* returns success=false, with zero tokens and cost, no completion call    *)
(* and no hypothesis, design, run or analysis written.                     *)
(*   As claimed: results.error of every one of them names the prior stage. *)
(*   As amended: that holds for Stages 3..6; Stage 2's results.error is    *)
(*   "No papers found for this project", which names no stage.             *)
(***************************************************************************)
NoPredecessor(k, d, p) ==
    CASE k = 2 -> ~HasPapers(d, p)
      [] k = 3 -> IdeaRuns(d, p) = {}
      [] k = 4 -> ~HasHypothesis(d, p)
      [] k = 5 -> ~HasDesign(d, p)
      [] k = 6 -> ProjectRows(d.experiment_runs, p) = {}

RefusedForFree ==
    /\ out'.kind = "exec" /\ ~out'.success /\ ~out'.raised
    /\ out'.tokens_used = 0 /\ out'.cost_usd = 0 /\ out'.calls = 0
    /\ NoStageRecordWritten

C2_ClaimedStep ==
    \A k \in 2..6 :
        (StageStep(k) /\ ~IsFinish /\ NoPredecessor(k, db, out'.project_id))
            => RefusedForFree /\ AgentToRun(out'.error) = k - 1

C2_Claimed == [][C2_ClaimedStep]_vars

C2_AmendedStep ==
    \A k \in 2..6 :
        (StageStep(k) /\ ~IsFinish /\ NoPredecessor(k, db, out'.project_id))
            => /\ RefusedForFree
               /\ k >= 3 => AgentToRun(out'.error) = k - 1
               /\ k = 2 => out'.error = "No papers found for this project"

C2_Amended == [][C2_AmendedStep]_vars

\* Stage 6 was refused for a project without runs, Stage 2's log entry is there
C2_Witness ==
    /\ out.kind = "exec" /\ out.stage = 6 /\ ~out.success /\ AgentToRun(out.error) = 5
    /\ ProjectRows(db.experiment_runs, out.project_id) = {}
    /\ \E i \in 1..Len(db.agent_runs) :
          /\ db.agent_runs[i].results.error = "No papers found for this project"
          /\ db.agent_runs[i].tokens_used = 0

(***************************************************************************)
(* C3.  Once a stage has returned success=false to run_sequential, the     *)
(* runner invokes no further stage of the list.                            *)
(***************************************************************************)
C3_HaltsAfterFailure == [][wf.failed => ~InvokeStep]_vars

(***************************************************************************)
(* C4.  Every run_agent invocation that ends, by a returned output         *)
(* (success true or false) or by an exception, has appended exactly one    *)
(* agent-run record to the ledger and exactly one entry to the cost        *)
(* tracker.                                                                *)
(***************************************************************************)
C4_OneRunOneCostStep ==
    RunAgentEnds => /\ Len(db'.agent_runs) = Len(db.agent_runs) + 1
                    /\ Len(costs') = Len(costs) + 1

C4_OneRunOneCost == [][C4_OneRunOneCostStep]_vars

(***************************************************************************)
(* C5.  When execute raises inside run_agent, the step appends exactly one *)
(* agent-run record, with status failed and the text of the exception,     *)
(* hands the same exception to the caller, adds no entry to the workflow   *)
(* state, and run_sequential invokes no later stage.                       *)
(***************************************************************************)
C5_RaiseStep ==
    (RunAgentEnds /\ out'.raised)
        => /\ Len(db'.agent_runs) = Len(db.agent_runs) + 1
           /\ SubSeq(db'.agent_runs, 1, Len(db.agent_runs)) = db.agent_runs
           /\ LET a == db'.agent_runs[Len(db'.agent_runs)]
              IN /\ a.status = "failed"
                 /\ a.error = out'.error /\ a.error # ""
                 /\ a.project_id = wf.project_id
                 /\ a.agent_name = AgentName(wf.naming, out'.stage)
           /\ wf'.state = wf.state
           /\ wf'.status = "raised"

C5_NothingAfterRaise == wf.status = "raised" => (~InvokeStep /\ wf' = wf)

C5_Raise == [][C5_RaiseStep /\ C5_NothingAfterRaise]_vars

\* a stage of a longer list has raised in run_agent: the failed record is the
\* last of the ledger and the rest of the list is still waiting
C5_Witness ==
    /\ out.via = "workflow" /\ out.raised
    /\ wf.status = "raised" /\ Len(wf.tasks) > 1
    /\ Len(db.agent_runs) > 0
    /\ db.agent_runs[Len(db.agent_runs)].status = "failed"
    /\ db.agent_runs[Len(db.agent_runs)].error = out.error

(***************************************************************************)
(* C6.  When Stage 2 has just returned success=true for a project, and the *)
(* same caller (the script executing the agents directly, or the runner    *)
(* under whatever names the agents are registered) executes Stage 3 next   *)
(* for that project with no idea title, Stage 3 finds the ideas of that    *)
(* Stage-2 output and selects the first of them.                           *)
(***************************************************************************)
C6_Stage3FindsIdeasStep ==
    ( /\ out.kind = "exec" /\ out.stage = 2 /\ out.success
      /\ StageStep(3)
      /\ out'.project_id = out.project_id /\ out'.via = out.via
      /\ out'.arg_title = NoTitle )
        => out'.selected_title = out.ideas[1].title

C6_Stage3FindsIdeas == [][C6_Stage3FindsIdeasStep]_vars

(***************************************************************************)
(* C7.  Resolver of Stages 4, 5 and 6.  With an explicit id the stage      *)
(* works on exactly the record of that id among the project's records of   *)
(* the predecessor type, and fails without writing anything when the       *)
(* project has no such record; with no id it works on the project's most   *)
(* recently created record of that type.                                   *)
(***************************************************************************)
PredRows(k, d, p) ==
    CASE k = 4 -> ProjectRows(d.hypotheses, p)
      [] k = 5 -> ProjectRows(d.experiment_designs, p)
      [] k = 6 -> ProjectRows(d.experiment_runs, p)

CreatedAt(k, r) == IF k = 6 THEN r.started_at ELSE r.created_at

Newest(k, rows) == CHOOSE r \in rows : \A q \in rows : CreatedAt(k, q) <= CreatedAt(k, r)

\* the parent id carried by the record the stage has written
WrittenParent(k, d, id) ==
    CASE k = 4 -> {g.hypothesis_id : g \in {x \in d.experiment_designs : x.id = id}}
      [] k = 5 -> {r.design_id : r \in {x \in d.experiment_runs : x.id = id}}
      [] k = 6 -> {a.run_id : a \in {x \in d.analyses : x.id = id}}

C7_ResolverStep ==
    \A k \in {4, 5, 6} :
        (StageStep(k) /\ ~IsFinish)
            => LET p == out'.project_id
                   rows == PredRows(k, db, p)
                   arg == out'.arg_id
                   expected ==
                       IF arg # None
                       THEN IF \E r \in rows : r.id = arg THEN arg ELSE None
                       ELSE IF rows = {} THEN None ELSE Newest(k, rows).id
               IN /\ out'.pred_id = expected
                  /\ expected = None
                        => /\ out'.kind = "exec" /\ ~out'.success /\ ~out'.raised
                           /\ NoStageRecordWritten
                  /\ (out'.success \/ out'.kind = "started")
                        => WrittenParent(k, db', out'.record_id) = {expected}

RunIds(d) == {r.id : r \in d.experiment_runs}

\* every run of db' is new and queued, or an old run whose status is the
\* same or has moved along one of the transitions
RunsMoveAlong(transitions) ==
    /\ RunIds(db) \subseteq RunIds(db')
    /\ \A r \in db'.experiment_runs :
          IF r.id \in RunIds(db)
          THEN \A q \in db.experiment_runs :
                  q.id = r.id => (q.status = r.status \/ <<q.status, r.status>> \in transitions)
          ELSE r.status = "queued"

\* a run does not end without having been in status running
EndsFromRunning ==
    \A r \in db'.experiment_runs : \A q \in db.experiment_runs :
        (q.id = r.id /\ r.status \in {"completed", "failed"} /\ q.status # r.status)
            => q.status = "running"

C9_TerminalStep ==
    /\ \A q \in db.experiment_runs :
          q.status \in {"completed", "failed"}
              => \E r \in db'.experiment_runs :
                    r.id = q.id /\ r.status = q.status /\ r.results_data = q.results_data
    /\ (StageStep(5) /\ out'.kind = "started")
          => /\ out'.record_id \notin RunIds(db)
             /\ out'.record_id \in RunIds(db')

C9_Terminal == [][C9_TerminalStep]_vars

(***************************************************************************)
(* C10.  A run whose status is not completed has null results_data.        *)
(***************************************************************************)
C10_NullUntilCompleted ==
    \A r \in db.experiment_runs : r.status # "completed" => r.results_data = NullResults

\* a failed run, without results, next to a completed run that has them
C10_Witness ==
    /\ \E r \in db.experiment_runs : r.status = "failed" /\ r.results_data = NullResults
    /\ \E r \in db.experiment_runs : r.status = "completed" /\ r.results_data.present

(***************************************************************************)
(* C11.  Stage 6 returns success=true, or writes an analysis, only for a   *)
(* run of the project that is completed and has results_data: every        *)
(* analysis it writes is the analysis of such a run, never of a queued,    *)
(* running or failed one.                                                  *)
(***************************************************************************)
C11_OnlyCompletedRunsStep ==
    (StageStep(6) /\ (out'.success \/ db'.analyses # db.analyses))
        => /\ \E r \in ProjectRows(db.experiment_runs, out'.project_id) :
                 /\ r.id = out'.pred_id
                 /\ r.status = "completed"
                 /\ r.results_data # NullResults
           /\ \A a \in db'.analyses \ db.analyses : a.run_id = out'.pred_id

C11_OnlyCompletedRuns == [][C11_OnlyCompletedRunsStep]_vars

\* Stage 6 has analysed the completed run of a project that also has a failed run
C11_Witness ==
    /\ out.kind = "exec" /\ out.stage = 6 /\ out.success
    /\ \E a \in db.analyses : a.id = out.record_id /\ a.run_id = out.pred_id
    /\ \E r \in ProjectRows(db.experiment_runs, out.project_id) : r.status = "failed"

(***************************************************************************)
(* C12.  Upsert: after add_paper, add_hypothesis, add_experiment_design,   *)
(* add_experiment_run or add_analysis returns, the table holds exactly one *)
(* row of the given id, that row carries the arguments of this call (also  *)
(* when a row of that id with other arguments was there before), and the   *)
(* rows of the other ids are as they were.                                 *)
(***************************************************************************)
AddMethods ==
    {"add_paper", "add_hypothesis", "add_experiment_design", "add_experiment_run",
     "add_analysis"}

C12_UpsertStep ==
    (out'.kind = "api" /\ out'.method \in AddMethods)
        => LET m == out'.method
               a == out'.args
               mine == {r \in TableOf(m, db') : r.id = a.id}
           IN /\ Cardinality(mine) = 1
              /\ \A r \in mine : Payload(m, r) = a
              /\ {r \in TableOf(m, db') : r.id # a.id} = {r \in TableOf(m, db) : r.id # a.id}

C12_Upsert == [][C12_UpsertStep]_vars

\* a second add call has replaced the row of a hypothesis by other arguments
C12_Witness ==
    /\ out.kind = "api" /\ out.method = "add_hypothesis" /\ out.overwrote
    /\ Cardinality(db.hypotheses) = 1
    /\ \A h \in db.hypotheses : Payload("add_hypothesis", h) = out.args

(***************************************************************************)
(* C13.  Project isolation: a step made for one project leaves what        *)
(* get_papers, get_hypotheses, get_experiment_designs, get_experiment_runs *)
(* and get_analyses return for every other project unchanged.              *)
(***************************************************************************)
AllProjects == Projects \cup {ScriptProject}

Lookups(d, p) ==
    <<get_papers(d, p), get_hypotheses(d, p), get_experiment_designs(d, p),
      get_experiment_runs(d, p), get_analyses(d, p)>>

C13_IsolationStep ==
    \A A \in AllProjects : A # out'.project_id => Lookups(db', A) = Lookups(db, A)

C13_Isolation == [][C13_IsolationStep]_vars

(***************************************************************************)
(* C14.  Referential integrity of what the stages write: every design      *)
(* names a hypothesis of its project, every run a design of its project,   *)
(* every analysis a run and a hypothesis of its project, and the           *)
(* hypothesis of an analysis is the hypothesis of the design of its run.   *)
(***************************************************************************)
C14_Referential ==
    /\ \A g \in db.experiment_designs :
          \E h \in ProjectRows(db.hypotheses, g.project_id) : h.id = g.hypothesis_id
    /\ \A r \in db.experiment_runs :
          \E g \in ProjectRows(db.experiment_designs, r.project_id) : g.id = r.design_id
    /\ \A a \in db.analyses :
          /\ \E h \in ProjectRows(db.hypotheses, a.project_id) : h.id = a.hypothesis_id
          /\ \E r \in ProjectRows(db.experiment_runs, a.project_id) :
                /\ r.id = a.run_id
                /\ \E g \in db.experiment_designs :
                      g.id = r.design_id /\ g.hypothesis_id = a.hypothesis_id

\* the whole chain hypothesis, design, run, analysis has been written
C14_Witness ==
    /\ db.analyses # {}
    /\ \E a \in db.analyses, r \in db.experiment_runs, g \in db.experiment_designs :
          a.run_id = r.id /\ r.design_id = g.id /\ g.hypothesis_id = a.hypothesis_id

(***************************************************************************)
(* C15.  Every persisted record belongs to a project that was created:     *)
(* its project_id is the id of a row of the projects table.                *)
(***************************************************************************)
ProjectIds(d) == {p.id : p \in d.projects}

Records(d) ==
    d.papers \cup d.hypotheses \cup d.experiment_designs \cup d.experiment_runs
        \cup d.analyses \cup {d.agent_runs[i] : i \in 1..Len(d.agent_runs)}

C15_ProjectsExist == \A r \in Records(db) : r.project_id \in ProjectIds(db)

(***************************************************************************)
(* C16.  No stage raises because of an unparsable completion: an execute   *)
(* of Stage 1, 2, 3, 4 or 6 that was handed a malformed reply (not JSON,   *)
(* JSON of the wrong type, a list item that is no object, a min_samples    *)
(* that is no number) returns an output.                                   *)
(***************************************************************************)
GenerativeStages == {1, 2, 3, 4, 6}

C16_NoRaiseStep ==
    \A k \in GenerativeStages : (StageStep(k) /\ out'.malformed) => ~out'.raised

C16_NoRaise == [][C16_NoRaiseStep]_vars

(***************************************************************************)
(* C17.  What a stage returns after a malformed completion.                *)
(* As claimed: it never returns success=false.                             *)
(* As the code has it: Stages 3 and 4 substitute their fallback, persist   *)
(* their record and return success=true, and Stage 2 scores an idea with   *)
(* the default scores; but Stage 2 has no fallback for the idea list: when *)
(* no valid idea is parsed it returns success=false with the error "Failed *)
(* to generate valid ideas", charged for its two completions, and writes   *)
(* nothing.                                                                *)
(***************************************************************************)
Returned(k) == StageStep(k) /\ out'.malformed /\ ~out'.raised

StageTables(d) ==
    <<d.papers, d.hypotheses, d.experiment_designs, d.experiment_runs, d.analyses>>

FallbackDataRequirements == _define_data_requirements([kind |-> "unparsable", min_samples |-> Absent])

C17_ClaimedStep == \A k \in GenerativeStages : Returned(k) => out'.success

C17_AmendedStep ==
    \A k \in GenerativeStages : Returned(k) =>
        IF out'.success
        THEN /\ k = 2 => out'.ideas # <<>>
             /\ k = 3 => \E h \in ProjectRows(db'.hypotheses, out'.project_id) :
                             h.id = out'.record_id /\ h \notin db.hypotheses
             /\ k = 4 => \E g \in ProjectRows(db'.experiment_designs, out'.project_id) :
                             /\ g.id = out'.record_id /\ g \notin db.experiment_designs
                             /\ g.data_requirements = FallbackDataRequirements
                             /\ FallbackDataRequirements.min_samples = 1000
        ELSE /\ k = 2
             /\ out'.error = "Failed to generate valid ideas"
             /\ out'.tokens_used = 2 * LLMReply.tokens
             /\ out'.cost_usd = 2 * LLMReply.cost
             /\ StageTables(db') = StageTables(db)

Spent(o) == [tokens_used |-> o.calls * LLMReply.tokens, cost_usd |-> o.calls * LLMReply.cost]

LastAgentRun(d) == d.agent_runs[Len(d.agent_runs)]

C18_PartialChargingStep ==
    /\ \A k \in GenerativeStages : (StageStep(k) /\ ~out'.raised) =>
          /\ out'.tokens_used = Spent(out').tokens_used
          /\ out'.cost_usd = Spent(out').cost_usd
    /\ (RunAgentEnds /\ Len(db'.agent_runs) = Len(db.agent_runs) + 1) =>
          /\ LastAgentRun(db').tokens_used = Spent(out').tokens_used
          /\ LastAgentRun(db').cost_usd = Spent(out').cost_usd
          /\ LastAgentRun(db').tokens_used >= 0

C18_PartialCharging == [][C18_PartialChargingStep]_vars

(***************************************************************************)
(* C19.  No lost increments: with two trackers over the same costs file,   *)
(* every recorded spend adds its cost to the persisted total of its month  *)
(* and keeps every entry the file already held.                            *)
(***************************************************************************)
Recorded == store'.spends = store.spends + 1

IsPrefix(s, t) == Len(s) <= Len(t) /\ SubSeq(t, 1, Len(s)) = s

C19_NoLostIncrementsStep ==
    Recorded =>
        /\ get_month_cost(store'.file, store'.last.month)
              = get_month_cost(store.file, store'.last.month) + store'.last.cost
        /\ \A m \in Months : IsPrefix(store.file[m], store'.file[m])

C19_NoLostIncrements == [][C19_NoLostIncrementsStep]_vars

(***************************************************************************)
(* C20.  After every track_api_call of a tracker, the costs file equals    *)
(* the tracker's mapping, which is its previous mapping with exactly one   *)
(* entry appended at the end of the current month's list: the other months *)
(* and the earlier entries are unchanged and the month's total has grown   *)
(* by the recorded cost.                                                   *)
(***************************************************************************)
C20_RecordSpendStep ==
    Recorded =>
        LET i == store'.last.tracker
            m == store'.last.month
            before == store.mem[i]
            after == store'.mem[i]
        IN /\ store'.file = after
           /\ Len(after[m]) = Len(before[m]) + 1
           /\ IsPrefix(before[m], after[m])
           /\ after[m][Len(after[m])].cost = store'.last.cost
           /\ \A n \in Months \ {m} : after[n] = before[n]
           /\ get_month_cost(after, m) = get_month_cost(before, m) + store'.last.cost

C20_RecordSpend == [][C20_RecordSpendStep]_vars

\* a tracker has just recorded into a month that already held an entry of its
\* own, while an earlier month keeps its entries
C20_Witness ==
    /\ store.last.tracker \in Trackers
    /\ store.last.month = 2
    /\ Len(store.mem[store.last.tracker][2]) >= 2
    /\ store.mem[store.last.tracker][1] # <<>>
    /\ store.file = store.mem[store.last.tracker]

(***************************************************************************)
(* C21.  can_afford(e) answers False exactly when the tracker's total of   *)
(* the current month plus e exceeds its budget; so with a positive         *)
(* estimate it answers False in every state where the total has reached    *)
(* the budget.                                                             *)
(***************************************************************************)
SpentBy(i) == get_month_cost(store.mem[i], store.month)

C21_CanAfford ==
    store.last.op = "can_afford" =>
        LET i == store.last.tracker
            e == store.last.estimate
        IN /\ ~store.last.afford <=> SpentBy(i) + e > store.budget[i]
           /\ (e > 0 /\ SpentBy(i) >= store.budget[i]) => ~store.last.afford

\* refused although the spending itself is still within the budget
C21_Witness ==
    /\ store.last.op = "can_afford" /\ ~store.last.afford
    /\ store.last.estimate > 0
    /\ SpentBy(store.last.tracker) <= store.budget[store.last.tracker]
    /\ SpentBy(store.last.tracker) > 0

(***************************************************************************)
(* C22.  The budget guard is advisory: track_api_call appends its entry,   *)
(* saves the file and returns in every state, also when the month's total  *)
(* already exceeds the budget or the alert threshold; reaching the         *)
(* threshold only prints an alert.                                         *)
(***************************************************************************)
C22_AdvisoryStep ==
    Recorded =>
        LET i == store'.last.tracker
            m == store'.last.month
            status == get_budget_status(store'.mem[i], m, store.budget[i])
        IN /\ store'.last.op = "track"
           /\ store'.last.returned = (IF status.alert_threshold_reached THEN "alert" ELSE "quiet")
           /\ Len(store'.mem[i][m]) = Len(store.mem[i][m]) + 1
           /\ store'.file[m] = store'.mem[i][m]

WorkflowBegins == out'.via = "workflow" /\ out'.kind \in {"exec", "started"} /\ ~IsFinish

LoggedNames(d, p) ==
    {d.agent_runs[i].agent_name : i \in {j \in 1..Len(d.agent_runs) : d.agent_runs[j].project_id = p}}

C23_SequentialStep ==
    /\ WorkflowBegins =>
          /\ pending = NoPending
          /\ wf.status = "running" /\ wf.tasks # <<>>
          /\ out'.stage = Head(wf.tasks)
          /\ Len(db.agent_runs) = Cardinality(wf.state)
          /\ wf.state = LoggedNames(db, wf.project_id)
    /\ pending.via = "workflow" => (IsFinish \/ wf' = wf)
    /\ (out'.via = "workflow" /\ out'.kind = "exec" /\ ~out'.raised) =>
          /\ Len(db'.agent_runs) = Cardinality(wf'.state)
          /\ AgentName(wf.naming, out'.stage) \in LoggedNames(db', wf.project_id)

C23_Sequential == [][C23_SequentialStep]_vars

\* Stage 6 of a workflow begins after the five stages before it were logged
C23_Witness ==
    /\ out.via = "workflow" /\ out.kind = "exec" /\ out.stage = 6
    /\ Len(db.agent_runs) = 6
    /\ pending = NoPending

(***************************************************************************)
(* C24.  The end-to-end script, run alone with a search that finds papers, *)
(* well-formed completions and collaborators that return, ends with all    *)
(* six stages successful and with a paper, a hypothesis, a design, a       *)
(* completed run and an analysis of its project in the ledger.             *)
(***************************************************************************)
\* the script has ended and no other caller has touched the ledger
ScriptEnded == wf.naming = "script" /\ wf.status = "done" /\ ops = 0

\* the last stage failed for a reason the premise excludes: an empty search,
\* a malformed completion, a ledger write that raised
Excused == out.malformed \/ out.error \in {"No papers found", "execution error"}

C24_EndToEnd ==
    ScriptEnded =>
        IF wf.failed THEN Excused
        ELSE /\ wf.tasks = <<>>
             /\ HasPapers(db, ScriptProject) /\ HasHypothesis(db, ScriptProject)
             /\ HasDesign(db, ScriptProject) /\ HasResults(db, ScriptProject)
             /\ ProjectRows(db.analyses, ScriptProject) # {}

(***************************************************************************)
(* C25.  A failure of the document sink never flips success: a stage whose *)
(* save raised still returns success=true with its ledger record written,  *)
(* and artifacts holds exactly the references of the saves that did not    *)
(* raise (none when every save raised).                                    *)
(***************************************************************************)
\* the record a successful execution of stage k has written
Persisted(k, d, o) ==
    CASE k = 1 -> HasPapers(d, o.project_id)
      [] k = 2 -> o.ideas # <<>>
      [] k = 3 -> \E h \in ProjectRows(d.hypotheses, o.project_id) : h.id = o.record_id
      [] k = 4 -> \E g \in ProjectRows(d.experiment_designs, o.project_id) : g.id = o.record_id
      [] k = 5 -> \E r \in ProjectRows(d.experiment_runs, o.project_id) :
                     r.id = o.record_id /\ r.status = "completed"
      [] k = 6 -> \E a \in ProjectRows(d.analyses, o.project_id) : a.id = o.record_id

C25_SinkFailureStep ==
    \A k \in 1..6 : (StageStep(k) /\ out'.sink_fails # {}) =>
        /\ out'.success /\ ~out'.raised
        /\ Persisted(k, db', out')
        /\ Len(out'.artifacts) = out'.saves - Cardinality(out'.sink_fails)
        /\ \A i \in 1..Len(out'.artifacts) : out'.artifacts[i] \notin out'.sink_fails
        /\ out'.sink_fails = 1..out'.saves => out'.artifacts = <<>>

C25_SinkFailure == [][C25_SinkFailureStep]_vars

\* Stage 1 has stored two papers and one of its two saves raised
C25_Witness ==
    /\ out.kind = "exec" /\ out.stage = 1 /\ out.success
    /\ out.saves = 2 /\ Cardinality(out.sink_fails) = 1 /\ Len(out.artifacts) = 1
    /\ HasPapers(db, out.project_id)

(***************************************************************************)
(* C26.  A stage invoked without a project id returns success=false,       *)
(* charges no tokens and no cost, makes no completion call and writes      *)
(* nothing to the ledger.  (An execution a collaborator's exception ends   *)
(* is left aside: it has no output.)                                       *)
(***************************************************************************)
C26_MissingProjectStep ==
    \A k \in 1..6 : (StageStep(k) /\ out'.project_id = NoProject /\ ~out'.raised) =>
        /\ ~out'.success
        /\ out'.tokens_used = 0 /\ out'.cost_usd = 0 /\ out'.calls = 0
        /\ StageTables(db') = StageTables(db)

C26_MissingProject == [][C26_MissingProjectStep]_vars

(***************************************************************************)
(* C27.  The order of the ledger lookups.                                  *)
(* As claimed: all five return newest-first, so the record an add call has *)
(* just created or re-added is the first one its project's lookup returns. *)
(* As the code has it: that holds for get_hypotheses,                      *)
(* get_experiment_designs, get_experiment_runs and get_analyses; get_papers*)
(* returns the papers by relevance_score, highest first, wherever the      *)
(* paper just added stands.                                                *)
(***************************************************************************)
LookupOf(method, d, p) ==
    CASE method = "add_paper" -> get_papers(d, p)
      [] method = "add_hypothesis" -> get_hypotheses(d, p)
      [] method = "add_experiment_design" -> get_experiment_designs(d, p)
      [] method = "add_experiment_run" -> get_experiment_runs(d, p)
      [] method = "add_analysis" -> get_analyses(d, p)

\* the record of the call just made is the first of its project's lookup
AddedComesFirst(methods) ==
    (out'.kind = "api" /\ out'.method \in methods) =>
        LET rows == LookupOf(out'.method, db', out'.project_id)
        IN rows # <<>> /\ rows[1].id = out'.args.id

C27_AmendedStep ==
    /\ AddedComesFirst(AddMethods \ {"add_paper"})
    /\ (out'.kind = "api" /\ out'.method = "add_paper") =>
          LET rows == get_papers(db', out'.project_id)
          IN /\ \E i \in 1..Len(rows) : rows[i].id = out'.args.id
             /\ \A i, j \in 1..Len(rows) :
                   i < j => rows[i].relevance_score >= rows[j].relevance_score

C28_ClampOrDefault ==
    out.kind = "scored" =>
        /\ Len(out.scores) = (IF out.stage = 1 THEN 1 ELSE 3)
        /\ \A i \in 1..Len(out.scores) : out.scores[i] \in 1..10

\* three fields, one below the range, one above it and one that is not a
\* number for any comparison
C28_Witness ==
    /\ out.kind = "scored" /\ out.stage = 2
    /\ Len(out.fields) = 3
    /\ out.fields[1] = [numeric |-> TRUE, val |-> 0]
    /\ out.fields[2] = [numeric |-> TRUE, val |-> 11]
    /\ out.fields[3] = [numeric |-> TRUE, val |-> NaN]
    /\ out.scores = <<1, 10, 10>>

(***************************************************************************)
(* C29.  Every idea of a Stage-2 result carries overall_score =            *)
(* 0.35 novelty_score + 0.35 feasibility_score + 0.30 impact_score, of the *)
(* clamped scores stored beside it; so does an idea that got the fallback  *)
(* scores.  (overall_score is kept in hundredths.)                         *)
(***************************************************************************)
Weighted(idea) ==
    NOVELTY_WEIGHT * idea.novelty_score + FEASIBILITY_WEIGHT * idea.feasibility_score
        + IMPACT_WEIGHT * idea.impact_score

C29_OverallScore ==
    (out.kind = "exec" /\ out.stage = 2 /\ out.success) =>
        /\ out.ideas # <<>>
        /\ \A i \in 1..Len(out.ideas) :
              /\ out.ideas[i].overall_score = Weighted(out.ideas[i])
              /\ {out.ideas[i].novelty_score, out.ideas[i].feasibility_score,
                  out.ideas[i].impact_score} \subseteq 1..10
        /\ NOVELTY_WEIGHT + FEASIBILITY_WEIGHT + IMPACT_WEIGHT = 100

\* a result with an idea scored from its reply and an idea with the fallback scores
C29_Witness ==
    /\ out.kind = "exec" /\ out.stage = 2 /\ out.success
    /\ \E i, j \in 1..Len(out.ideas) :
          /\ out.ideas[i].overall_score = 500 /\ out.ideas[i].novelty_score = 5
          /\ out.ideas[j].novelty_score # out.ideas[j].impact_score
          /\ out.ideas[j].overall_score = Weighted(out.ideas[j])

(***************************************************************************)
(* C30.  The decision of Stage 6 depends on p_value, significance_level,   *)
(* effect_size and the minimum effect size only: ACCEPT when p < level and *)
(* |effect| >= minimum, ACCEPT (weak) when p < level and |effect| <        *)
(* minimum, INCONCLUSIVE when p >= level and p < 0.1, REJECT otherwise.    *)
(* So p = 0.03 at level 0.05 with effect 0.6 and minimum 0.3 is ACCEPT,    *)
(* p = 0.08 at level 0.05 INCONCLUSIVE and p = 0.15 at level 0.05 REJECT.  *)
(***************************************************************************)
Rule(pv, sig, eff, min) ==
    CASE pv < sig /\ Abs(eff) >= min -> "ACCEPT - Strong evidence supports hypothesis"
      [] pv < sig /\ Abs(eff) < min ->
            "ACCEPT (weak) - Statistically significant but small effect"
      [] pv >= sig /\ pv < 10 -> "INCONCLUSIVE - Marginally significant, needs more data"
      [] OTHER -> "REJECT - Insufficient evidence to support hypothesis"

C30_Decision ==
    out.kind = "decided" =>
        LET pv == out.stats.p_value
            sig == out.stats.significance_level
            eff == out.stats.effect_size
        IN /\ out.decision = Rule(pv, sig, eff, out.min_effect)
           /\ (pv = 3 /\ sig = 5 /\ eff = 60 /\ out.min_effect = 30) =>
                 out.decision = "ACCEPT - Strong evidence supports hypothesis"
           /\ (pv = 8 /\ sig = 5) =>
                 out.decision = "INCONCLUSIVE - Marginally significant, needs more data"
           /\ (pv = 15 /\ sig = 5) =>
                 out.decision = "REJECT - Insufficient evidence to support hypothesis"

\* significant at the level, but with an effect below the minimum
C30_Witness ==
    /\ out.kind = "decided"
    /\ out.stats.p_value = 3 /\ out.stats.significance_level = 5
    /\ out.stats.effect_size = 20 /\ out.min_effect = 30
    /\ out.decision = "ACCEPT (weak) - Statistically significant but small effect"

(***************************************************************************)
(* C31.  Stage 1 scores every candidate of the (at most 2*limit) it asked  *)
(* for and selects the limit highest-scoring ones: paper_count is          *)
(* min(limit, number of candidates), no candidate left out scores strictly *)
(* higher than a selected one, the result is in descending score order,    *)
(* and the papers written to the ledger are exactly the selected ones.     *)
(***************************************************************************)
C31_SelectionStep ==
    (StageStep(1) /\ out'.success) =>
        LET sel == out'.papers
            cand == out'.candidates
            limit == out'.max_papers
            left == {cand[i] : i \in 1..Len(cand)} \ {sel[i] : i \in 1..Len(sel)}
            written == db'.papers \ db.papers
        IN /\ Len(cand) <= 2 * limit
           /\ Len(sel) = (IF Len(cand) < limit THEN Len(cand) ELSE limit)
           /\ \A i \in 1..Len(sel) : \E j \in 1..Len(cand) : sel[i] = cand[j]
           /\ \A i, j \in 1..Len(sel) : i # j => sel[i].paperId # sel[j].paperId
           /\ \A c \in left : \A i \in 1..Len(sel) :
                 c.relevance_score <= sel[i].relevance_score
           /\ \A i, j \in 1..Len(sel) :
                 i < j => sel[i].relevance_score >= sel[j].relevance_score
           /\ {[paperId |-> r.id, project_id |-> r.project_id,
                 relevance_score |-> r.relevance_score] : r \in written}
                = {[paperId |-> sel[i].paperId, project_id |-> out'.project_id,
                    relevance_score |-> sel[i].relevance_score] : i \in 1..Len(sel)}

C31_Selection == [][C31_SelectionStep]_vars

\* three candidates of three different scores, the lowest first, and a limit
\* of two: the two highest are selected, highest first
C31_Witness ==
    /\ out.kind = "exec" /\ out.stage = 1 /\ out.success
    /\ out.max_papers = 2 /\ Len(out.candidates) = 3 /\ Len(out.papers) = 2
    /\ out.candidates[1].relevance_score < out.candidates[2].relevance_score
    /\ out.candidates[2].relevance_score < out.candidates[3].relevance_score
    /\ out.papers[1] = out.candidates[3] /\ out.papers[2] = out.candidates[2]

(***************************************************************************)
(* C32.  Stage 2 keeps exactly the items of the idea reply that hold all   *)
(* seven required fields and drops the others: the ideas returned are the  *)
(* kept items, one scoring completion was made for each of them (after the *)
(* two completions of the gap analysis and the idea prompt), they are in   *)
(* descending order of overall_score, and idea_count is their number.  A   *)
(* reply of which no item is kept gives success=false after the two        *)
(* completions.                                                            *)
(***************************************************************************)
C32_ParseIdeas ==
    (out.kind = "exec" /\ out.stage = 2 /\ ~out.raised /\ out.calls > 0) =>
        LET whole == {i \in 1..Len(out.batch) : RequiredKeys \subseteq out.batch[i].keys}
            idea_count == Len(out.ideas)
        IN /\ out.success = (whole # {})
           /\ idea_count = Cardinality(whole)
           /\ {out.ideas[i].title : i \in 1..idea_count}
                 = {out.batch[i].title : i \in whole}
           /\ out.calls = 2 + Cardinality(whole)
           /\ \A i, j \in 1..idea_count :
                 i < j => out.ideas[i].overall_score >= out.ideas[j].overall_score

\* an idea that lacks a field stood between two whole ones, and the second of
\* these scored higher than the first
C32_Witness ==
    /\ out.kind = "exec" /\ out.stage = 2 /\ out.success
    /\ Len(out.batch) = 3 /\ Len(out.ideas) = 2
    /\ ~(RequiredKeys \subseteq out.batch[2].keys)
    /\ out.ideas[1].title = out.batch[3].title
    /\ out.ideas[2].title = out.batch[1].title
    /\ out.ideas[1].overall_score > out.ideas[2].overall_score

(***************************************************************************)
(* C33.  Idea selection of Stage 3, over the ideas of the latest completed *)
(* idea-generation run of the project.  With an idea title in the context: *)
(* the idea of that title is selected, and when no idea carries it the     *)
(* stage returns success=false with zero tokens and cost, no completion    *)
(* call and no hypothesis written.  Without a title: the first idea is     *)
(* selected, which has the maximal overall_score.  The hypothesis written  *)
(* carries the title of the selected idea as its source idea.              *)
(***************************************************************************)
C33_SelectionStep ==
    LET p == out'.project_id
        runs == IdeaRuns(db, p)
        latest == CHOOSE i \in runs :
                     \A j \in runs : db.agent_runs[j].completed_at
                                        <= db.agent_runs[i].completed_at
        ideas == db.agent_runs[latest].results.ideas
        titles == {ideas[i].title : i \in 1..Len(ideas)}
        written == db'.hypotheses \ db.hypotheses
    IN (StageStep(3) /\ p # NoProject /\ runs # {} /\ ideas # <<>>) =>
          /\ (out'.arg_title # NoTitle /\ out'.arg_title \notin titles) => RefusedForFree
          /\ (out'.arg_title # NoTitle /\ out'.success) =>
                out'.selected_title = out'.arg_title /\ out'.arg_title \in titles
          /\ (out'.arg_title = NoTitle /\ out'.success) =>
                /\ out'.selected_title = ideas[1].title
                /\ \A i \in 1..Len(ideas) :
                      ideas[i].overall_score <= ideas[1].overall_score
          /\ out'.success =>
                \E h \in written :
                    /\ written = {h}
                    /\ h.id = out'.record_id /\ h.project_id = p
                    /\ h.idea_title = out'.selected_title
          /\ ~out'.success => written = {}

C33_Selection == [][C33_SelectionStep]_vars

\* the idea asked for by title was not the top-ranked one, and the hypothesis
\* written names it
C33_Witness ==
    /\ out.kind = "exec" /\ out.stage = 3 /\ out.success
    /\ out.arg_title = "idea_a" /\ out.selected_title = "idea_a"
    /\ \E i \in IdeaRuns(db, out.project_id) :
          /\ Len(db.agent_runs[i].results.ideas) = 2
          /\ db.agent_runs[i].results.ideas[1].title = "idea_b"
    /\ \E h \in db.hypotheses : h.id = out.record_id /\ h.idea_title = "idea_a"

(***************************************************************************)
(* C34.  The resource estimate of a Stage-4 design depends on min_samples  *)
(* of its data requirements alone (1000 when the key is absent): below     *)
(* 1000 it is "< 5 minutes" at cost 0, from 1000 up to but excluding 10000 *)
(* "5-30 minutes" at cost 0, from 10000 upward "30-120 minutes" at cost    *)
(* 0.10.  The execution makes exactly two completion calls: the estimate   *)
(* and the code template cost none.                                        *)
(***************************************************************************)
C34_Estimate ==
    (out.kind = "exec" /\ out.stage = 4 /\ out.success) =>
        LET design == CHOOSE g \in db.experiment_designs : g.id = out.record_id
            min_samples == design.data_requirements.min_samples
            n == IF min_samples = Absent THEN 1000 ELSE min_samples
        IN /\ out.calls = 2
           /\ out.tokens_used = 2 * LLMReply.tokens /\ out.cost_usd = 2 * LLMReply.cost
           /\ n < 1000 =>
                 out.resources = [estimated_compute_time |-> "< 5 minutes", cost_cents |-> 0]
           /\ (n >= 1000 /\ n < 10000) =>
                 out.resources = [estimated_compute_time |-> "5-30 minutes", cost_cents |-> 0]
           /\ n >= 10000 =>
                 out.resources = [estimated_compute_time |-> "30-120 minutes",
                                  cost_cents |-> 10]

\* a design for exactly 10000 samples, estimated at 30-120 minutes and 0.10
C34_Witness ==
    /\ out.kind = "exec" /\ out.stage = 4 /\ out.success
    /\ out.resources.cost_cents = 10
    /\ \E g \in db.experiment_designs :
          g.id = out.record_id /\ g.data_requirements.min_samples = 10000

(***************************************************************************)
(* C35.  When a Stage-5 execution that resolved a design returns, the run  *)
(* it created is in a terminal status.  success=true exactly when the run  *)
(* is completed and its results_data holds samples_processed = min_samples *)
(* of the design (1000 when the design names none) and the fixed metrics   *)
(* block; success=false exactly when the run is failed, with the error     *)
(* message and the elapsed duration stored and results_data null.  Every   *)
(* output of Stage 5 reports zero tokens and zero cost.                    *)
(***************************************************************************)
C35_TerminalStep ==
    /\ (StageStep(5) /\ out'.kind = "exec") =>
          out'.tokens_used = 0 /\ out'.cost_usd = 0 /\ out'.calls = 0
    /\ IsFinish =>
          LET run == CHOOSE r \in db'.experiment_runs : r.id = out'.record_id
              design == CHOOSE g \in db.experiment_designs : g.id = pending.design_id
              min_samples == design.data_requirements.min_samples
              completed ==
                  /\ run.status = "completed"
                  /\ run.results_data =
                        [present |-> TRUE,
                         samples_processed |-> IF min_samples = Absent THEN 1000
                                               ELSE min_samples,
                         metrics |-> <<85, 82, 88, 85>>]
              failed ==
                  /\ run.status = "failed"
                  /\ run.error # "" /\ run.error = out'.error
                  /\ run.duration_seconds = "elapsed"
                  /\ run.results_data = NullResults
          IN /\ out'.kind = "exec" /\ out'.stage = 5 /\ ~out'.raised
             /\ out'.record_id = pending.run_id
             /\ run.status \in {"completed", "failed"}
             /\ out'.success <=> completed
             /\ ~out'.success <=> failed

C35_Terminal == [][C35_TerminalStep]_vars

\* a Stage-5 execution has returned success=false and left its run failed
C35_Witness ==
    /\ out.kind = "exec" /\ out.stage = 5 /\ ~out.success /\ out.record_id # None
    /\ \E r \in db.experiment_runs :
          /\ r.id = out.record_id /\ r.status = "failed"
          /\ r.error = "execution error" /\ r.duration_seconds = "elapsed"

(***************************************************************************)
(* C36.  When the run Stage 6 resolves (the one named in the context, or   *)
(* the newest of the project) references a design that is not in the       *)
(* project, or that design references a hypothesis that is not in the      *)
(* project, Stage 6 returns success=false with zero tokens and cost, makes *)
(* no completion call and writes no analysis; when the run holds results   *)
(* the error names the missing parent.                                     *)
(***************************************************************************)
C36_InconsistencyStep ==
    LET p == out'.project_id
        runs == ProjectRows(db.experiment_runs, p)
        resolved == IF out'.arg_id # None THEN {r \in runs : r.id = out'.arg_id}
                    ELSE {r \in runs : \A q \in runs : q.started_at <= r.started_at}
    IN (StageStep(6) /\ p # NoProject) =>
          \A r \in resolved :
              LET designs == {g \in ProjectRows(db.experiment_designs, p) :
                                 g.id = r.design_id}
                  parents == {h \in ProjectRows(db.hypotheses, p) :
                                 \E g \in designs : g.hypothesis_id = h.id}
              IN /\ (designs = {} \/ parents = {}) =>
                       RefusedForFree /\ db'.analyses = db.analyses
                 /\ (designs = {} /\ r.results_data.present) =>
                       out'.error = "Design not found for this run"
                 /\ (designs # {} /\ parents = {} /\ r.results_data.present) =>
                       out'.error = "Hypothesis not found for this run"

C36_Inconsistency == [][C36_InconsistencyStep]_vars

\* Stage 6 refused a completed run whose design is in the project and names
\* a hypothesis that is not
C36_Witness ==
    /\ out.kind = "exec" /\ out.stage = 6 /\ ~out.success
    /\ out.error = "Hypothesis not found for this run"
    /\ \E r \in db.experiment_runs, g \in db.experiment_designs :
          /\ r.id = out.pred_id /\ r.project_id = out.project_id
          /\ r.status = "completed"
          /\ g.id = r.design_id /\ g.project_id = out.project_id
          /\ \A h \in db.hypotheses :
                h.id = g.hypothesis_id => h.project_id # out.project_id

(***************************************************************************)
(* C37.  Frame of a stage execution.  A successful execution of Stage 3,   *)
(* 4, 5 or 6 adds exactly one record of its own type, under an id no       *)
(* record of that type carried, and every paper, hypothesis, design, run   *)
(* and analysis that existed before an execution of any stage is the same  *)
(* after it, but for the run that the same Stage-5 execution created,      *)
(* which its second half updates.                                          *)
(***************************************************************************)
C37_FrameStep ==
    LET tables(d) == [papers |-> d.papers, hypotheses |-> d.hypotheses,
                      experiment_designs |-> d.experiment_designs,
                      experiment_runs |-> d.experiment_runs, analyses |-> d.analyses]
        own == [k \in 3..6 |-> <<"hypotheses", "experiment_designs",
                                 "experiment_runs", "analyses">>[k - 2]]
        names == DOMAIN tables(db)
        added(t) == tables(db')[t] \ tables(db)[t]
        kept(t) == \A r \in tables(db)[t] :
                      \/ r \in tables(db')[t]
                      \/ /\ t = "experiment_runs" /\ IsFinish /\ StageStep(5)
                         /\ r.id = pending.run_id
    IN /\ \A k \in {3, 4, 6} : (StageStep(k) /\ out'.success) =>
             /\ \E r \in added(own[k]) :
                   /\ added(own[k]) = {r}
                   /\ r.id = out'.record_id
                   /\ \A q \in tables(db)[own[k]] : q.id # r.id
             /\ \A t \in names \ {own[k]} : added(t) = {}
       /\ (StageStep(5) /\ ~IsFinish /\ out'.kind = "started") =>
             /\ \E r \in added("experiment_runs") :
                   /\ added("experiment_runs") = {r}
                   /\ r.id = out'.record_id /\ r.id = pending'.run_id
                   /\ \A q \in db.experiment_runs : q.id # r.id
             /\ \A t \in names \ {"experiment_runs"} : added(t) = {}
       /\ (StageStep(5) /\ IsFinish) =>
             /\ \A r \in added("experiment_runs") : r.id = pending.run_id
             /\ {r.id : r \in db'.experiment_runs} = {r.id : r \in db.experiment_runs}
             /\ \A t \in names \ {"experiment_runs"} : added(t) = {}
       /\ \A k \in 1..6 : StageStep(k) => \A t \in names : kept(t)

C37_Frame == [][C37_FrameStep]_vars

(***************************************************************************)
(* C38.  The p-value of a successful Stage-6 execution is 0.03 or 0.15:    *)
(* 0.03 exactly when the mean of the metrics block of the analysed run is  *)
(* strictly greater than 0.7, a block without values counting as a mean of *)
(* 0.5.  For a run holding the results Stage 5 writes (mean 0.85) and a    *)
(* hypothesis with significance level 0.05 and minimum effect size 0.3,    *)
(* the p-value is 0.03 and the result and the stored analysis carry the    *)
(* strong ACCEPT decision.                                                 *)
(***************************************************************************)
RECURSIVE SumMetrics(_)
SumMetrics(values) == IF values = <<>> THEN 0 ELSE Head(values) + SumMetrics(Tail(values))

\* the run holds what Stage 5 writes, and its hypothesis the default criteria
Stage5RunDefaultCriteria(r, h) ==
    /\ r.results_data = SyntheticResults([kind |-> "dict", min_samples |-> 500])
    /\ h.success_criteria = [significance_level |-> 5, minimum_effect_size |-> 30]

C38_PValueStep ==
    (StageStep(6) /\ out'.kind = "exec" /\ out'.success) =>
        \E r \in db.experiment_runs, h \in db.hypotheses, a \in db'.analyses :
            LET metrics == r.results_data.metrics
                above == metrics # <<>> /\ SumMetrics(metrics) > 70 * Len(metrics)
            IN /\ r.id = out'.pred_id /\ a.id = out'.record_id
               /\ a.run_id = r.id /\ a.hypothesis_id = h.id
               /\ out'.stats.p_value \in {3, 15}
               /\ out'.stats.p_value = 3 <=> above
               /\ Stage5RunDefaultCriteria(r, h) =>
                     /\ SumMetrics(metrics) = 85 * Len(metrics)
                     /\ out'.stats.p_value = 3
                     /\ out'.decision = "ACCEPT - Strong evidence supports hypothesis"
                     /\ a.decision = out'.decision

C38_PValue == [][C38_PValueStep]_vars

\* Stage 6 analysed a run whose metrics average exactly 0.7 and found 0.15
C38_Witness ==
    /\ out.kind = "exec" /\ out.stage = 6 /\ out.success
    /\ out.stats.p_value = 15
    /\ \E r \in db.experiment_runs :
          /\ r.id = out.pred_id
          /\ r.results_data.metrics = <<60, 80>>

(***************************************************************************)
(* C39.  Stage 3 takes its ideas from the agent-run record of the          *)
(* idea-generation stage that is the most recent one among those of the    *)
(* project with status completed: it reports that there are no ideas only  *)
(* when the project has no such record, a record logged later as failed    *)
(* does not hide it, and of two completed records the later one is read.   *)
(***************************************************************************)
C39_LatestStep ==
    LET p == out'.project_id
        done == IdeaRuns(db, p)
        last == CHOOSE i \in done :
                    \A j \in done : db.agent_runs[j].completed_at
                                        <= db.agent_runs[i].completed_at
        none == out'.error = "No ideas found. Run Agent 2 first."
    IN (StageStep(3) /\ out'.kind = "exec" /\ p # NoProject) =>
          /\ none <=> done = {}
          /\ done # {} =>
                /\ out'.pred_id = db.agent_runs[last].id
                /\ out'.selected_title = db.agent_runs[last].results.ideas[1].title

C39_Latest == [][C39_LatestStep]_vars

\* Stage 3 read the second of two completed idea-generation records of the
\* project, which a failed one follows
C39_Witness ==
    /\ out.kind = "exec" /\ out.stage = 3 /\ out.success
    /\ \E i, j, k \in 1..Len(db.agent_runs) :
          /\ i < j /\ j < k
          /\ \A n \in {i, j, k} :
                /\ db.agent_runs[n].project_id = out.project_id
                /\ db.agent_runs[n].agent_name = "IdeaGenerationAgent"
          /\ db.agent_runs[i].status = "completed"
          /\ db.agent_runs[j].status = "completed"
          /\ db.agent_runs[k].status = "failed"
          /\ out.pred_id = db.agent_runs[j].id

(***************************************************************************)
(* C40.  When two invocations of run_sequential on the same project        *)
(* interleave, a stage that succeeds in an invocation whose preceding      *)
(* stage made a record consumes that record: the design made by Stage 4    *)
(* references the hypothesis the invocation made, the run made by Stage 5  *)
(* the design it made, and the analysis made by Stage 6 the run it made.   *)
(***************************************************************************)
C40_OwnRecordStep ==
    \A k \in 4..6 :
        (/\ StageStep(k) /\ out'.kind = "exec" /\ out'.success
         /\ wf'.inv = wf.inv /\ wf.made[k - 1] # None) =>
            LET table == CASE k = 4 -> db'.experiment_designs
                           [] k = 5 -> db'.experiment_runs
                           [] k = 6 -> db'.analyses
                row == RowOf(table, out'.record_id)
                parent == CASE k = 4 -> row.hypothesis_id
                            [] k = 5 -> row.design_id
                            [] k = 6 -> row.run_id
            IN parent = wf.made[k - 1]

C40_OwnRecord == [][C40_OwnRecordStep]_vars

====
